---- MODULE Spec2Model ----
(***************************************************************************)
(* Field data upload app: the server-side Test Record Store                *)
(* (supabase/functions/server/index.ts: key-value mirror, relational       *)
(* tables tests / test_videos, private blob bucket) and the client-side    *)
(* Wizard Controller (App) that drives it.                                 *)
(*                                                                         *)
(* Encoding of JSON values:                                                *)
(*   - a string leaf is a TLA+ string; Null stands for null / undefined /  *)
(*     an absent key (the code reads leaves only through ?? and copies);   *)
(*   - an object is a function from its keys to leaves; an object, array,  *)
(*     file name or whole record that may be absent is held as an option:  *)
(*     Undefined (= << >>) when absent, Some(v) (= <<v>>) when present;    *)
(*   - a timestamp is a clock value 1..MaxClock; NoTime is a null time;    *)
(*   - a storage key `${testId}-${Date.now()}-${file.name}` is the tuple   *)
(*     <<testId, Date.now(), file.name>>; "contains the testId" is         *)
(*     membership of the testId among the tuple's components.              *)
(***************************************************************************)
EXTENDS Integers, Sequences, FiniteSets, TLC

\* ---------------------------------------------------------------- bounds
MaxClock == 2
MaxVideos == 2

\* ------------------------------------------------------------ JSON values
Null == "null"
Undefined == << >>
Some(v) == <<v>>
Val(o) == o[1]
NoTime == 0

\* a ?? b, per kind of value
StrOr(a, b) == IF a = Null THEN b ELSE a
ObjOr(a, b) == IF a = Undefined THEN b ELSE a
TimeOr(a, b) == IF a = NoTime THEN b ELSE a

TestIds == {"t1", "t2"}
\* The test the store's clients address in the store's own specification.
StoreTestIds == {"t1"}
SessionIds == {"s1"}
FileNames == {"clip.mp4"}

GeoKeys == {"latitude", "longitude", "city", "state", "accuracy", "timestamp"}
GeoNullDefault == {"latitude", "longitude", "accuracy", "timestamp"}

MetaColumns ==
  {"date", "deviceId", "deviceType", "testCycle", "location", "environment",
   "timeStart", "timeEnd", "roadType", "postedSpeedLimit", "numberOfLanes",
   "trafficDensity", "roadHeading", "cameraHeading", "lighting",
   "weatherCondition", "severity", "measuredDistance", "mountHeight",
   "pitchAngle", "vehicleCaptureView", "externalBatteryPluggedIn",
   "firmware", "varVersion"}
MetaKeys == MetaColumns \cup {"comments"}
requiredFields == {"deviceId", "deviceType", "testCycle", "environment", "roadType"}

\* The allow-list of identities (two of the six entries).
USERS ==
  { [userName |-> "Hongren Liu", email |-> "lhongren@axon.com"],
    [userName |-> "Sumanth Ranga", email |-> "sranga@axon.com"] }

\* A captured fix as the wizard holds it.
GeoA ==
  [k \in GeoKeys |->
     CASE k = "latitude" -> "37.7" [] k = "longitude" -> "-122.4"
       [] k = "city" -> "San Francisco" [] k = "state" -> "California"
       [] k = "accuracy" -> "12" [] OTHER -> "ts-geo"]
GeoB == [GeoA EXCEPT !["latitude"] = "0", !["longitude"] = "0",
                     !["city"] = "Unknown", !["state"] = "Unknown"]
Geos == {GeoA, GeoB}

\* buildEmptyMetadata(): every column is '' except the date and the switch.
buildEmptyMetadata ==
  [k \in MetaKeys |->
     CASE k = "date" -> "2026-01-15"
       [] k = "externalBatteryPluggedIn" -> "false"
       [] k = "comments" -> Null
       [] OTHER -> ""]

\* A submission that passes the required-field validation.
MetaD1 ==
  [buildEmptyMetadata EXCEPT !["deviceId"] = "D1", !["deviceType"] = "EVT",
     !["testCycle"] = "RC1", !["environment"] = "urban",
     !["roadType"] = "freeway", !["firmware"] = "v1"]
\* The same form with the free-text comment filled in.
MetaD1c == [MetaD1 EXCEPT !["comments"] = "bumpy road"]
\* A later edit of the same form.
MetaD2 == [MetaD1 EXCEPT !["deviceId"] = "D2", !["firmware"] = "v2"]
\* A patch object that carries a single metadata field: {firmware: "v2"}.
MetaOnlyFirmware == [k \in MetaKeys |-> IF k = "firmware" THEN "v2" ELSE Null]

FormMetas == {MetaD1c, MetaD2}


\* ------------------------------------------------------------------ state
VARIABLES
  kv,           \* key-value mirror: testId -> option of the object under test:<id>
  tests,        \* relational table tests: testId -> option of a row
  test_videos,  \* relational table test_videos, rows in insertion order
  bucket,       \* blob keys present in the private storage bucket
  now,          \* the server clock (new Date() / Date.now())
  request,      \* the HTTP request served last
  response,     \* its response
  repeated,     \* history: the request served last repeats the one before it
  \* the Wizard Controller (App) and the screen it has mounted
  currentScreen,      \* Screen
  sessionId,          \* the session id minted or restored on mount
  userInfo,           \* option of UserInfo
  geoLocation,        \* option of GeoLocation
  metadata,           \* option of MetadataForm: the controller-owned draft
  videoFiles,         \* sequence of File
  currentTestId,      \* '' when no test is held
  isEditingExisting,  \* the edit flag
  historyTests,       \* UploadHistoryScreen: the list loaded by loadTests
  \* GeoLocationScreen
  geolocation,        \* navigator.geolocation is available
  initialLocation,    \* the prop: option of GeoLocation
  isLoading,
  location,           \* option of GeoLocation
  error,              \* the error text shown, Null when none
  showManualEntry,
  capture,            \* where captureLocation stands between its awaits
  attempts,           \* history: the sources the last capture called, in order, each with its outcome
  shownFor,           \* history: per GPS error code, the error text its capture ended with
  \* VideoUploadScreen
  selectedFiles,      \* sequence of File
  \* sonner
  toasts,             \* the toasts the last screen handler raised
  \* ReviewSubmitScreen
  isSubmitting,
  currentStep,        \* the step text shown, '' when none
  \* sessions: the server's session:<id> entries, the browser's stored id,
  \* and where App's fetchSession stands
  sessions,           \* sessionId -> option of {userName, email, createdAt}
  localStorage,       \* option of the id under fieldTestSessionId
  sessionLookup,      \* "none", or "pending" while GET /session/:id is out
  \* requests the server is still handling, each between two of its awaits
  inflight

storeVars == <<kv, tests, test_videos, bucket, now, request, response, repeated>>
wizardVars == <<currentScreen, sessionId, userInfo, geoLocation, metadata,
                videoFiles, currentTestId, isEditingExisting, historyTests>>
geoVars == <<geolocation, initialLocation, isLoading, location, error,
             showManualEntry, capture, attempts, shownFor>>
videoVars == <<selectedFiles>>
reviewVars == <<isSubmitting, currentStep>>
sessionVars == <<sessions, localStorage, sessionLookup>>
raceVars == <<inflight>>
restVars == <<reviewVars, sessionVars, raceVars>>
screenVars == <<geoVars, videoVars, toasts, restVars>>
clientVars == <<wizardVars, screenVars>>
vars == <<kv, tests, test_videos, bucket, now, request, response, repeated,
          currentScreen, sessionId, userInfo, geoLocation, metadata,
          videoFiles, currentTestId, isEditingExisting, historyTests,
          geolocation, initialLocation, isLoading, location, error,
          showManualEntry, capture, attempts, shownFor, selectedFiles, toasts,
          isSubmitting, currentStep, sessions, localStorage, sessionLookup,
          inflight>>

\* -------------------------------------------------- request bodies (inputs)
\* Body of POST /tests.  A key the client leaves out is Null / Undefined.
EmptyBody ==
  [testId |-> Null, sessionId |-> Null, userInfo |-> Undefined,
   geoLocation |-> Undefined, metadata |-> Undefined, videos |-> Undefined,
   videoFileName |-> Undefined, videoUrl |-> Undefined, status |-> Null]

\* What the wizard sends: testId, sessionId, userInfo, geoLocation, metadata.
WizardBody(t, sid, u, g, m) ==
  [EmptyBody EXCEPT !.testId = t, !.sessionId = sid, !.userInfo = Some(u),
                    !.geoLocation = Some(g), !.metadata = Some(m)]

AnyUser == CHOOSE u \in USERS : u.userName = "Hongren Liu"

\* A video reference as a client would echo it back in a videos array.
EchoVideo(t) ==
  [fileName |-> <<t, 1, "clip.mp4">>, url |-> Undefined, size |-> "10",
   type |-> "video/mp4", uploadedAt |-> 1]

PostBodies(t) ==
  { WizardBody(t, "s1", AnyUser, GeoA, m) : m \in FormMetas }
  \cup
  { \* a patch that omits metadata and geo
    [EmptyBody EXCEPT !.testId = t, !.userInfo = Some(AnyUser)],
    \* a patch that omits user and metadata
    [EmptyBody EXCEPT !.testId = t, !.geoLocation = Some(GeoB)],
    \* a body that carries a videos array
    [WizardBody(t, "s1", AnyUser, GeoA, MetaD1c) EXCEPT !.videos = Some(<<EchoVideo(t)>>)],
    \* the single-file review screen: videoFileName = videoFile.name
    [WizardBody(t, Null, AnyUser, GeoA, MetaD1c) EXCEPT !.videoFileName = Some(<<"clip.mp4">>)] }

\* Body of PUT /tests/:id.
EmptyUpdates ==
  [sessionId |-> Null, userInfo |-> Undefined, geoLocation |-> Undefined,
   metadata |-> Undefined, videos |-> Undefined, videoFileName |-> Undefined,
   videoUrl |-> Undefined, status |-> Null]

PutBodies ==
  { [EmptyUpdates EXCEPT !.metadata = Some(m)] : m \in FormMetas \cup {MetaOnlyFirmware} }
  \cup { [EmptyUpdates EXCEPT !.geoLocation = Some(GeoB)] }

\* ---------------------------------------------------------- POST /tests
\* existingTest?.k, per kind of value
OptObj(existing, k) == IF existing = Undefined THEN Undefined ELSE Val(existing)[k]
OptStr(existing, k) == IF existing = Undefined THEN Null ELSE Val(existing)[k]
OptTime(existing, k) == IF existing = Undefined THEN NoTime ELSE Val(existing)[k]

\* {...existingTest, ...testData}[k] for a string leaf / an object key.
SpreadStr(existing, body, k) == StrOr(body[k], OptStr(existing, k))
SpreadObj(existing, body, k) == ObjOr(body[k], OptObj(existing, k))

\* Array.isArray(x) ? x : []
ArrayOrEmpty(x) == IF x = Undefined THEN << >> ELSE Val(x)

\* PostKvRecord with a slip: createdAt is stamped anew on every call.
PostKvRecord_restampCreatedAt(existingTest, testData, clock) ==
  LET existingVideos == ArrayOrEmpty(OptObj(existingTest, "videos"))
      mergedVideos == IF testData.videos # Undefined THEN Val(testData.videos)
                      ELSE existingVideos
  IN [testId |-> testData.testId,
      sessionId |-> SpreadStr(existingTest, testData, "sessionId"),
      userInfo |-> SpreadObj(existingTest, testData, "userInfo"),
      geoLocation |-> SpreadObj(existingTest, testData, "geoLocation"),
      metadata |-> SpreadObj(existingTest, testData, "metadata"),
      videos |-> Some(mergedVideos),
      videoFileName |-> ObjOr(testData.videoFileName, OptObj(existingTest, "videoFileName")),
      videoUrl |-> ObjOr(testData.videoUrl, OptObj(existingTest, "videoUrl")),
      videoUploadedAt |-> OptTime(existingTest, "videoUploadedAt"),
      status |-> StrOr(testData.status, StrOr(OptStr(existingTest, "status"), "pending")),
      createdAt |-> clock,
      updatedAt |-> clock]

\* The object stored under test:<id> by POST /tests.
PostKvRecord(existingTest, testData, clock) ==
  LET existingVideos == ArrayOrEmpty(OptObj(existingTest, "videos"))
      mergedVideos == IF testData.videos # Undefined THEN Val(testData.videos)
                      ELSE existingVideos
  IN [testId |-> testData.testId,
      sessionId |-> SpreadStr(existingTest, testData, "sessionId"),
      userInfo |-> SpreadObj(existingTest, testData, "userInfo"),
      geoLocation |-> SpreadObj(existingTest, testData, "geoLocation"),
      metadata |-> SpreadObj(existingTest, testData, "metadata"),
      videos |-> Some(mergedVideos),
      videoFileName |-> ObjOr(testData.videoFileName, OptObj(existingTest, "videoFileName")),
      videoUrl |-> ObjOr(testData.videoUrl, OptObj(existingTest, "videoUrl")),
      videoUploadedAt |-> OptTime(existingTest, "videoUploadedAt"),
      status |-> StrOr(testData.status, StrOr(OptStr(existingTest, "status"), "pending")),
      createdAt |-> TimeOr(OptTime(existingTest, "createdAt"), clock),
      updatedAt |-> clock]

\* (obj || {}).k ?? null
Leaf(obj, k) == IF obj = Undefined THEN Null ELSE Val(obj)[k]

\* The row upserted into tests by POST /tests.  The upsert names every
\* column except the three latest-video columns, which keep the old row's
\* values (null on insert).
PostRow(existingTest, oldRow, testData, clock) ==
  [test_id |-> testData.testId,
   session_id |-> testData.sessionId,
   user_name |-> Leaf(testData.userInfo, "userName"),
   email |-> Leaf(testData.userInfo, "email"),
   geo |-> [k \in GeoKeys |-> Leaf(testData.geoLocation, k)],
   meta |-> [k \in MetaColumns |-> Leaf(testData.metadata, k)],
   latest_video_file_name |-> OptObj(oldRow, "latest_video_file_name"),
   latest_video_url |-> OptObj(oldRow, "latest_video_url"),
   video_uploaded_at |-> OptTime(oldRow, "video_uploaded_at"),
   status |-> StrOr(testData.status, StrOr(OptStr(existingTest, "status"), "pending")),
   created_at |-> TimeOr(OptTime(existingTest, "createdAt"), clock),
   updated_at |-> clock]

\* The handler as a function of the store: st is the store
\* [kv, tests, test_videos, bucket]; the result is the store it leaves and
\* the HTTP status it answers with.
PostHandler(st, testData, clock) ==
  IF testData.testId = Null
  THEN [store |-> st, status |-> 400]
  ELSE LET t == testData.testId
           existingTest == st.kv[t]
       IN [store |->
             [st EXCEPT !.kv[t] = Some(PostKvRecord(existingTest, testData, clock)),
                        !.tests[t] = Some(PostRow(existingTest, st.tests[t], testData, clock))],
           status |-> 200]

\* ------------------------------------------------------- PUT /tests/:testId
\* testRow?.col ?? dflt
RowStr(testRow, col, dflt) == StrOr(OptStr(testRow, col), dflt)
RowSub(testRow, grp, k, dflt) ==
  IF testRow = Undefined THEN dflt ELSE StrOr(Val(testRow)[grp][k], dflt)

\* const base = test ?? { ...rebuilt from the relational row, or defaults }
PutBase(test, testRow, testId, clock) ==
  IF test # Undefined THEN Val(test)
  ELSE [testId |-> testId,
        sessionId |-> Null,
        userInfo |-> Some([userName |-> RowStr(testRow, "user_name", ""),
                           email |-> RowStr(testRow, "email", "")]),
        geoLocation |-> Some([k \in GeoKeys |->
                                RowSub(testRow, "geo", k,
                                       IF k \in GeoNullDefault THEN Null ELSE "")]),
        metadata |-> Some([k \in MetaKeys |->
                             IF k = "comments" THEN Null
                             ELSE RowSub(testRow, "meta", k,
                                         IF k = "externalBatteryPluggedIn"
                                         THEN "false" ELSE "")]),
        videos |-> Undefined,
        videoFileName |-> Undefined,
        videoUrl |-> Undefined,
        videoUploadedAt |-> NoTime,
        status |-> RowStr(testRow, "status", "pending"),
        createdAt |-> TimeOr(OptTime(testRow, "created_at"), clock),
        updatedAt |-> TimeOr(OptTime(testRow, "updated_at"), clock)]

\* const merged = { ...base, ...updates, testId,
\*                  metadata: updates.metadata ?? base.metadata, updatedAt: now }
PutMerged(base, updates, testId, clock) ==
  [testId |-> testId,
   sessionId |-> StrOr(updates.sessionId, base.sessionId),
   userInfo |-> ObjOr(updates.userInfo, base.userInfo),
   geoLocation |-> ObjOr(updates.geoLocation, base.geoLocation),
   metadata |-> ObjOr(updates.metadata, base.metadata),
   videos |-> ObjOr(updates.videos, base.videos),
   videoFileName |-> ObjOr(updates.videoFileName, base.videoFileName),
   videoUrl |-> ObjOr(updates.videoUrl, base.videoUrl),
   videoUploadedAt |-> base.videoUploadedAt,
   status |-> StrOr(updates.status, base.status),
   createdAt |-> base.createdAt,
   updatedAt |-> clock]

\* The row upserted into tests by PUT: every column but video_uploaded_at.
PutRow(merged, oldRow, clock) ==
  [test_id |-> merged.testId,
   session_id |-> merged.sessionId,
   user_name |-> Leaf(merged.userInfo, "userName"),
   email |-> Leaf(merged.userInfo, "email"),
   geo |-> [k \in GeoKeys |-> Leaf(merged.geoLocation, k)],
   meta |-> [k \in MetaColumns |-> Leaf(merged.metadata, k)],
   latest_video_file_name |-> merged.videoFileName,
   latest_video_url |-> merged.videoUrl,
   video_uploaded_at |-> OptTime(oldRow, "video_uploaded_at"),
   status |-> StrOr(merged.status, "pending"),
   created_at |-> TimeOr(merged.createdAt, clock),
   updated_at |-> clock]

\* The handler has no not-found branch: an absent record is rebuilt from
\* the row, or from defaults, and stored.
PutHandler(st, testId, updates, clock) ==
  LET test == st.kv[testId]
      testRow == st.tests[testId]
      merged == PutMerged(PutBase(test, testRow, testId, clock), updates, testId, clock)
  IN [store |-> [st EXCEPT !.kv[testId] = Some(merged),
                           !.tests[testId] = Some(PutRow(merged, testRow, clock))],
      status |-> 200]

\* ------------------------------------------------------- GET /tests/:testId
\* Rows of test_videos for one test, ordered by uploaded_at ascending
\* (insertion order: the clock never runs backwards).
VideoRows(rows, testId) == SelectSeq(rows, LAMBDA r : r.test_id = testId)

VideoOfRow(video) ==
  [fileName |-> video.file_name, url |-> video.url, size |-> video.size,
   type |-> video.type, uploadedAt |-> video.uploaded_at]

GetHandler(st, testId) ==
  LET testRow == st.tests[testId]
      videos == VideoRows(st.test_videos, testId)
  IN IF testRow = Undefined
     THEN [status |-> 404, body |-> Undefined]
     ELSE [status |-> 200,
           body |-> Some(
             [testId |-> Val(testRow).test_id,
              userInfo |-> [userName |-> Val(testRow).user_name,
                            email |-> Val(testRow).email],
              geoLocation |-> Val(testRow).geo,
              metadata |-> Val(testRow).meta,
              videos |-> [i \in 1..Len(videos) |-> VideoOfRow(videos[i])],
              videoFileName |-> Val(testRow).latest_video_file_name,
              videoUrl |-> Val(testRow).latest_video_url,
              status |-> Val(testRow).status,
              createdAt |-> Val(testRow).created_at,
              updatedAt |-> Val(testRow).updated_at])]

\* ------------------------------------------------------ POST /upload-video
Files == { [name |-> n, size |-> "10", type |-> "video/mp4"] : n \in FileNames }

\* const fileName = `${testId}-${Date.now()}-${file.name}`
StorageKey(testId, clock, file) == <<testId, clock, file.name>>

\* signedUrlData?.signedUrl (the signing call is taken to succeed)
SignedUrl(fileName) == Some(<<"signed", fileName>>)

NextVideo(fileName, url, file, clock) ==
  [fileName |-> fileName, url |-> url, size |-> file.size, type |-> file.type,
   uploadedAt |-> clock]

\* UploadKvRecord with a slip: the status is left as it was.
UploadKvRecord_keepStatus(test, nextVideo, clock) ==
  LET existingVideos == ArrayOrEmpty(test.videos)
  IN [test EXCEPT !.videos = Some(Append(existingVideos, nextVideo)),
                  !.videoFileName = Some(nextVideo.fileName),
                  !.videoUrl = nextVideo.url,
                  !.videoUploadedAt = clock,
                  !.updatedAt = clock]

\* The object stored under test:<id> by a successful upload.
UploadKvRecord(test, nextVideo, clock) ==
  LET existingVideos == ArrayOrEmpty(test.videos)
  IN [test EXCEPT !.videos = Some(Append(existingVideos, nextVideo)),
                  !.videoFileName = Some(nextVideo.fileName),
                  !.videoUrl = nextVideo.url,
                  !.videoUploadedAt = clock,
                  !.status = "completed",
                  !.updatedAt = clock]

\* supabase.from('test_videos').insert(...): refused (and the refusal
\* ignored) when the foreign key finds no tests row.
InsertVideoRow(rows, testRow, testId, nextVideo) ==
  IF testRow = Undefined THEN rows
  ELSE Append(rows, [test_id |-> testId, file_name |-> nextVideo.fileName,
                     url |-> nextVideo.url, size |-> nextVideo.size,
                     type |-> nextVideo.type, uploaded_at |-> nextVideo.uploadedAt])

\* supabase.from('tests').update({...}).eq('test_id', testId)
UploadRow(testRow, nextVideo, clock) ==
  IF testRow = Undefined THEN testRow
  ELSE Some([Val(testRow) EXCEPT
               !.latest_video_file_name = Some(nextVideo.fileName),
               !.latest_video_url = nextVideo.url,
               !.video_uploaded_at = clock,
               !.status = "completed",
               !.updated_at = clock])

\* storageOk: the bucket accepted the write.  The blob is written before
\* the record is looked up.
UploadHandler(st, testId, file, storageOk, clock) ==
  LET fileName == StorageKey(testId, clock, file)
      nextVideo == NextVideo(fileName, SignedUrl(fileName), file, clock)
      stored == [st EXCEPT !.bucket = st.bucket \cup {fileName}]
  IN IF testId = Null THEN [store |-> st, status |-> 400]
     ELSE IF ~storageOk \/ fileName \in st.bucket      \* upsert: false
     THEN [store |-> st, status |-> 500]
     ELSE IF st.kv[testId] = Undefined
     THEN [store |-> stored, status |-> 404]
     ELSE [store |->
             [stored EXCEPT
                !.kv[testId] = Some(UploadKvRecord(Val(st.kv[testId]), nextVideo, clock)),
                !.test_videos = InsertVideoRow(st.test_videos, st.tests[testId], testId, nextVideo),
                !.tests[testId] = UploadRow(st.tests[testId], nextVideo, clock)],
           status |-> 200]

\* ---------------------------------------------------- DELETE /tests/:testId
Range(seq) == { seq[i] : i \in 1..Len(seq) }

\* filesToDelete with a slip: only the legacy single-video field is
\* collected.
filesToDelete_latestOnly(test) ==
  IF test.videoFileName # Undefined THEN {Val(test.videoFileName)} ELSE {}

\* The set of blob keys the handler asks the bucket to remove.
filesToDelete(test) ==
  (IF test.videoFileName # Undefined THEN {Val(test.videoFileName)} ELSE {})
  \cup { v.fileName : v \in Range(ArrayOrEmpty(test.videos)) }

\* on delete cascade
CascadeVideoRows(rows, testId) == SelectSeq(rows, LAMBDA r : r.test_id # testId)

\* DeleteHandler with a slip: a failed bulk remove aborts the request
\* before the record is deleted.
DeleteHandler_abortOnBlobFailure(st, testId, removed) ==
  IF st.kv[testId] = Undefined
  THEN [store |-> st, status |-> 404]
  ELSE IF removed # filesToDelete(Val(st.kv[testId]))
  THEN [store |-> [st EXCEPT !.bucket = st.bucket \ removed], status |-> 500]
  ELSE [store |->
          [st EXCEPT !.bucket = st.bucket \ removed,
                     !.kv[testId] = Undefined,
                     !.tests[testId] = Undefined,
                     !.test_videos = CascadeVideoRows(st.test_videos, testId)],
        status |-> 200]

\* removed: the keys the bulk remove actually removed; anything short of
\* filesToDelete is a (partial) failure, whose report the handler does not
\* look at.
DeleteHandler(st, testId, removed) ==
  IF st.kv[testId] = Undefined
  THEN [store |-> st, status |-> 404]
  ELSE [store |->
          [st EXCEPT !.bucket = st.bucket \ removed,
                     !.kv[testId] = Undefined,
                     !.tests[testId] = Undefined,
                     !.test_videos = CascadeVideoRows(st.test_videos, testId)],
        status |-> 200]

\* ------------------------------------------------- requests as transitions
Store == [kv |-> kv, tests |-> tests, test_videos |-> test_videos, bucket |-> bucket]

\* Serve one request: install the store the handler leaves, record the
\* request and the response.
Serve(req, result) ==
  /\ kv' = result.store.kv
  /\ tests' = result.store.tests
  /\ test_videos' = result.store.test_videos
  /\ bucket' = result.store.bucket
  /\ request' = req
  /\ response' = [status |-> result.status]
  /\ repeated' = (req.op = request.op /\ req = request)
  /\ UNCHANGED now

GetTest(testId) == GetHandler(Store, testId)

PostTest(testData) ==
  Serve([op |-> "POST /tests", testId |-> testData.testId, body |-> testData],
        PostHandler(Store, testData, now))

PutTest(testId, updates) ==
  Serve([op |-> "PUT /tests/:testId", testId |-> testId, body |-> updates],
        PutHandler(Store, testId, updates, now))

UploadVideo(testId, file, storageOk) ==
  Serve([op |-> "POST /upload-video", testId |-> testId,
         body |-> [file |-> file, storageOk |-> storageOk]],
        UploadHandler(Store, testId, file, storageOk, now))

FilesOf(testId) ==
  IF kv[testId] = Undefined THEN {} ELSE filesToDelete(Val(kv[testId]))

DeleteTest(testId, removed) ==
  /\ removed \subseteq FilesOf(testId)
  /\ Serve([op |-> "DELETE /tests/:testId", testId |-> testId,
            body |-> [asked |-> FilesOf(testId), removed |-> removed]],
           DeleteHandler(Store, testId, removed))

\* ------------------------------------------------------------------ clock
Tick ==
  /\ now < MaxClock
  /\ now' = now + 1
  /\ UNCHANGED <<kv, tests, test_videos, bucket, request, response, repeated>>
  /\ UNCHANGED clientVars

\* ------------------------------------------------------ the store's spec
NoRequest == [op |-> "none", testId |-> Null, body |-> Undefined]

StoreInit ==
  /\ kv = [t \in TestIds |-> Undefined]
  /\ tests = [t \in TestIds |-> Undefined]
  /\ test_videos = << >>
  /\ bucket = {}
  /\ now = 1
  /\ request = NoRequest
  /\ response = [status |-> 0]
  /\ repeated = FALSE

VideoCount(testId) ==
  IF kv[testId] = Undefined THEN 0 ELSE Len(ArrayOrEmpty(Val(kv[testId]).videos))

\* Requests of arbitrary clients of the store; the wizard is not involved.
DoPost == \E t \in StoreTestIds \cup {Null} :
            \E b \in (IF t = Null THEN {EmptyBody} ELSE PostBodies(t)) :
              PostTest(b) /\ UNCHANGED clientVars
DoPut == \E t \in StoreTestIds : \E u \in PutBodies :
           PutTest(t, u) /\ UNCHANGED clientVars
DoUpload == \E t \in StoreTestIds \cup {Null} : \E f \in Files : \E storageOk \in BOOLEAN :
              /\ t # Null => VideoCount(t) < MaxVideos
              /\ UploadVideo(t, f, storageOk)
              /\ UNCHANGED clientVars
DoDelete == \E t \in StoreTestIds : \E removed \in SUBSET bucket :
              DeleteTest(t, removed) /\ UNCHANGED clientVars

StoreNext == DoPost \/ DoPut \/ DoUpload \/ DoDelete \/ Tick


\* DELETE /tests/:testId when the relational delete fails: its result is
\* not looked at, so the key-value record is gone, the row (and with it the
\* video rows) stays, and the answer is still success.
DeleteHandlerRowKept(st, testId, removed) ==
  IF st.kv[testId] = Undefined
  THEN [store |-> st, status |-> 404]
  ELSE [store |-> [st EXCEPT !.bucket = st.bucket \ removed,
                             !.kv[testId] = Undefined],
        status |-> 200]

DoDeleteRowKept ==
  \E t \in StoreTestIds : \E removed \in SUBSET bucket :
    /\ removed \subseteq FilesOf(t)
    /\ Serve([op |-> "DELETE /tests/:testId", testId |-> t,
              body |-> [asked |-> FilesOf(t), removed |-> removed]],
             DeleteHandlerRowKept(Store, t, removed))
    /\ UNCHANGED clientVars

\* The store, within one tick of its clock, when a relational delete may
\* fail; video rows that outlive their record count against MaxVideos.
PartialNext ==
  \/ DoPost
  \/ DoPut
  \/ Len(test_videos) < MaxVideos /\ DoUpload
  \/ DoDelete
  \/ DoDeleteRowKept


\* ================================================== the Wizard Controller
\* GET /tests: one TestData per row of tests, each with its video rows.
\* (The list is held as a set: no handler of the controller reads its order.)
ListHandler(st) ==
  { Val(GetHandler(st, t).body) : t \in { x \in TestIds : st.tests[x] # Undefined } }

normalizeMetadata(input) ==
  [k \in MetaKeys |->
     CASE k = "comments" -> Null
       [] k = "externalBatteryPluggedIn" -> StrOr(input[k], "false")
       [] OTHER -> StrOr(input[k], "")]

\* ...(truthy object) of a TestData the list returned
UserInfoOf(test) == Some(test.userInfo)
GeoLocationOf(test) == Some(test.geoLocation)

\* Drafts the metadata form reports through onDraftChange: a form with a
\* required field still empty, and two complete forms.
MetaIncomplete == [buildEmptyMetadata EXCEPT !["deviceId"] = "D1"]
Drafts == FormMetas \cup {MetaIncomplete}

\* MetadataFormScreen: formData = metadata ?? buildEmptyMetadata()
FormData == IF metadata = Undefined THEN buildEmptyMetadata ELSE Val(metadata)
\* missingFields.length = 0
FormValid(formData) == \A f \in requiredFields : formData[f] \notin {"", Null}

\* The identity the tester picks and the test ids the wizard mints.
WizardUsers == USERS
WizardTestIds == {"t1"}

WizardInit ==
  /\ currentScreen = "user-info"
  /\ sessionId = "s1"
  /\ userInfo = Undefined
  /\ geoLocation = Undefined
  /\ metadata = Undefined
  /\ videoFiles = << >>
  /\ currentTestId = ""
  /\ isEditingExisting = FALSE
  /\ historyTests = {}

\* The store after the controller's request(s); req is the last one served.
Install(req, result, isRepeat) ==
  /\ kv' = result.store.kv
  /\ tests' = result.store.tests
  /\ test_videos' = result.store.test_videos
  /\ bucket' = result.store.bucket
  /\ request' = req
  /\ response' = [status |-> result.status]
  /\ repeated' = isRepeat
  /\ UNCHANGED now

NoCall == UNCHANGED storeVars

\* Mounting UploadHistoryScreen runs loadTests on the store as it is then.
MountHistory(st) == historyTests' = ListHandler(st)
Unmounted == historyTests' = {}

handleUserInfoSubmit(info) ==
  /\ currentScreen = "user-info"
  /\ userInfo' = Some(info)
  /\ currentScreen' = "dashboard"
  /\ NoCall
  /\ UNCHANGED <<sessionId, geoLocation, metadata, videoFiles, currentTestId,
                 isEditingExisting, historyTests>>

\* handleStartNewTest with a slip: the held metadata draft is not cleared.
handleStartNewTest_keepsMetadata(testId) ==
  /\ currentScreen = "dashboard" /\ userInfo # Undefined
  /\ testId # currentTestId
  /\ kv[testId] = Undefined /\ tests[testId] = Undefined
  /\ currentTestId' = testId
  /\ geoLocation' = Undefined
  /\ videoFiles' = << >>
  /\ isEditingExisting' = FALSE
  /\ currentScreen' = "geo-location"
  /\ NoCall
  /\ UNCHANGED <<sessionId, userInfo, metadata, historyTests>>

\* testId = `test-${Date.now()}-${random}`: an id no record and no held
\* test carries.
handleStartNewTest(testId) ==
  /\ currentScreen = "dashboard" /\ userInfo # Undefined
  /\ testId # currentTestId
  /\ kv[testId] = Undefined /\ tests[testId] = Undefined
  /\ currentTestId' = testId
  /\ geoLocation' = Undefined
  /\ metadata' = Undefined
  /\ videoFiles' = << >>
  /\ isEditingExisting' = FALSE
  /\ currentScreen' = "geo-location"
  /\ NoCall
  /\ UNCHANGED <<sessionId, userInfo, historyTests>>

handleGeoLocationContinue(loc) ==
  /\ currentScreen = "geo-location" /\ userInfo # Undefined
  /\ geoLocation' = Some(loc)
  /\ currentScreen' = "metadata-form"
  /\ NoCall
  /\ UNCHANGED <<sessionId, userInfo, metadata, videoFiles, currentTestId,
                 isEditingExisting, historyTests>>

MetadataFormShown ==
  currentScreen = "metadata-form" /\ userInfo # Undefined /\ geoLocation # Undefined

onDraftChange(draft) ==
  /\ MetadataFormShown
  /\ metadata' = Some(draft)
  /\ NoCall
  /\ UNCHANGED <<currentScreen, sessionId, userInfo, geoLocation, videoFiles,
                 currentTestId, isEditingExisting, historyTests>>

\* The edit-mode branch with a slip: the finally block routes to the
\* history whether or not the update succeeded.
EditSubmit_routesAnyway(formData, netOk) ==
  LET updates == [EmptyUpdates EXCEPT !.metadata = Some(formData)]
      putReq == [op |-> "PUT /tests/:testId", testId |-> currentTestId, body |-> updates]
      put == PutHandler(Store, currentTestId, updates, now)
      testData == [EmptyBody EXCEPT !.testId = currentTestId, !.sessionId = sessionId,
                                    !.userInfo = userInfo, !.geoLocation = geoLocation,
                                    !.metadata = Some(formData)]
      postReq == [op |-> "POST /tests", testId |-> currentTestId, body |-> testData]
      post == PostHandler(put.store, testData, now)
      NOT_FOUND == put.status = 404
      last == IF NOT_FOUND THEN post ELSE put
      updateSucceeded == netOk /\ last.status = 200
  IN /\ IF netOk
        THEN Install(IF NOT_FOUND THEN postReq ELSE putReq, last,
                     ~NOT_FOUND /\ putReq = request)
        ELSE NoCall
     /\ isEditingExisting' = FALSE
     /\ currentScreen' = "upload-history"
     /\ MountHistory(IF netOk THEN last.store ELSE Store)

\* The edit-mode branch of handleMetadataSubmit: PUT {metadata: formData};
\* on 404 the fallback POST with the held user, geo and the form's data.
\* netOk = FALSE: the fetch throws (no request reaches the server).
EditSubmit(formData, netOk) ==
  LET updates == [EmptyUpdates EXCEPT !.metadata = Some(formData)]
      putReq == [op |-> "PUT /tests/:testId", testId |-> currentTestId, body |-> updates]
      put == PutHandler(Store, currentTestId, updates, now)
      testData == [EmptyBody EXCEPT !.testId = currentTestId, !.sessionId = sessionId,
                                    !.userInfo = userInfo, !.geoLocation = geoLocation,
                                    !.metadata = Some(formData)]
      postReq == [op |-> "POST /tests", testId |-> currentTestId, body |-> testData]
      post == PostHandler(put.store, testData, now)
      NOT_FOUND == put.status = 404
      last == IF NOT_FOUND THEN post ELSE put
      updateSucceeded == netOk /\ last.status = 200
  IN /\ IF netOk
        THEN Install(IF NOT_FOUND THEN postReq ELSE putReq, last,
                     ~NOT_FOUND /\ putReq = request)
        ELSE NoCall
     /\ IF updateSucceeded
        THEN /\ isEditingExisting' = FALSE
             /\ currentScreen' = "upload-history"
             /\ MountHistory(last.store)
        ELSE UNCHANGED <<isEditingExisting, currentScreen, historyTests>>

handleMetadataSubmit(netOk) ==
  /\ MetadataFormShown
  /\ FormValid(FormData)
  /\ metadata' = Some(FormData)
  /\ IF isEditingExisting
     THEN EditSubmit(FormData, netOk)
     ELSE /\ netOk
          /\ currentScreen' = "video-upload"
          /\ NoCall
          /\ UNCHANGED <<isEditingExisting, historyTests>>
  /\ UNCHANGED <<sessionId, userInfo, geoLocation, videoFiles, currentTestId>>

\* onBack of the metadata form with a slip: the draft is dropped.
MetadataBack_dropsDraft ==
  /\ MetadataFormShown
  /\ currentScreen' = (IF isEditingExisting THEN "upload-history" ELSE "geo-location")
  /\ IF isEditingExisting THEN MountHistory(Store) ELSE Unmounted
  /\ metadata' = Undefined
  /\ NoCall
  /\ UNCHANGED <<sessionId, userInfo, geoLocation, videoFiles,
                 currentTestId, isEditingExisting>>
\* onBack of the metadata form
MetadataBack ==
  /\ MetadataFormShown
  /\ currentScreen' = (IF isEditingExisting THEN "upload-history" ELSE "geo-location")
  /\ IF isEditingExisting THEN MountHistory(Store) ELSE Unmounted
  /\ NoCall
  /\ UNCHANGED <<sessionId, userInfo, geoLocation, metadata, videoFiles,
                 currentTestId, isEditingExisting>>

\* handleContinue (a non-empty selection) and handleSkip (no file)
handleVideoUpload(files) ==
  /\ currentScreen = "video-upload"
  /\ videoFiles' = files
  /\ currentScreen' = "review-submit"
  /\ NoCall
  /\ UNCHANGED <<sessionId, userInfo, geoLocation, metadata, currentTestId,
                 isEditingExisting, historyTests>>

VideoUploadBack ==
  /\ currentScreen = "video-upload"
  /\ currentScreen' = "metadata-form"
  /\ NoCall
  /\ UNCHANGED <<sessionId, userInfo, geoLocation, metadata, videoFiles,
                 currentTestId, isEditingExisting, historyTests>>

ReviewShown ==
  /\ currentScreen = "review-submit"
  /\ userInfo # Undefined /\ geoLocation # Undefined /\ metadata # Undefined

\* onBack / onEditMetadata of the review screen
ReviewBack(screen) ==
  /\ ReviewShown
  /\ currentScreen' = screen
  /\ NoCall
  /\ UNCHANGED <<sessionId, userInfo, geoLocation, metadata, videoFiles,
                 currentTestId, isEditingExisting, historyTests>>

handleSubmitComplete ==
  /\ geoLocation' = Undefined
  /\ metadata' = Undefined
  /\ videoFiles' = << >>
  /\ currentTestId' = ""
  /\ isEditingExisting' = FALSE
  /\ currentScreen' = "dashboard"

\* ReviewSubmitScreen.handleSubmit: step 1 POST /tests {testId, userInfo,
\* geoLocation, metadata, videoFileName: videoFile.name}, step 2 the upload
\* of the selected file (skipped when the selection is empty); any failure
\* leaves the controller where it is.
handleSubmit(storageOk) ==
  /\ ReviewShown
  /\ LET hasFile == Len(videoFiles) > 0
         wizard == [EmptyBody EXCEPT !.testId = currentTestId,
                                     !.userInfo = userInfo, !.geoLocation = geoLocation,
                                     !.metadata = metadata]
         testData == IF hasFile
                     THEN [wizard EXCEPT !.videoFileName = Some(<<videoFiles[1].name>>)]
                     ELSE wizard
         postReq == [op |-> "POST /tests", testId |-> currentTestId, body |-> testData]
         post == PostHandler(Store, testData, now)
         upReq == [op |-> "POST /upload-video", testId |-> currentTestId,
                   body |-> [file |-> videoFiles[1], storageOk |-> storageOk]]
         up == UploadHandler(post.store, currentTestId, videoFiles[1], storageOk, now)
         uploads == hasFile /\ post.status = 200
         last == IF uploads THEN up ELSE post
     IN /\ hasFile \/ storageOk
        /\ Install(IF uploads THEN upReq ELSE postReq, last,
                   ~uploads /\ postReq = request)
        /\ IF last.status = 200
           THEN handleSubmitComplete
           ELSE UNCHANGED <<geoLocation, metadata, videoFiles, currentTestId,
                            isEditingExisting, currentScreen>>
  /\ UNCHANGED <<sessionId, userInfo, historyTests>>

handleViewHistory ==
  /\ currentScreen = "dashboard" /\ userInfo # Undefined
  /\ currentScreen' = "upload-history"
  /\ MountHistory(Store)
  /\ NoCall
  /\ UNCHANGED <<sessionId, userInfo, geoLocation, metadata, videoFiles,
                 currentTestId, isEditingExisting>>

HistoryShown == currentScreen = "upload-history" /\ userInfo # Undefined

onEditMetadata(test) ==
  /\ HistoryShown
  /\ test \in historyTests
  /\ currentTestId' = test.testId
  /\ userInfo' = UserInfoOf(test)
  /\ geoLocation' = GeoLocationOf(test)
  /\ metadata' = Some(normalizeMetadata(test.metadata))
  /\ videoFiles' = << >>
  /\ isEditingExisting' = TRUE
  /\ currentScreen' = "metadata-form"
  /\ Unmounted
  /\ NoCall
  /\ UNCHANGED sessionId

\* UploadHistoryScreen.handleDelete: DELETE, then loadTests when it was ok.
handleDelete(test, removed) ==
  /\ HistoryShown
  /\ test \in historyTests
  /\ removed \in {{}, FilesOf(test.testId)}
  /\ LET req == [op |-> "DELETE /tests/:testId", testId |-> test.testId,
                 body |-> [asked |-> FilesOf(test.testId), removed |-> removed]]
         del == DeleteHandler(Store, test.testId, removed)
     IN /\ Install(req, del, req = request)
        /\ IF del.status = 200 THEN MountHistory(del.store)
           ELSE UNCHANGED historyTests
  /\ UNCHANGED <<currentScreen, sessionId, userInfo, geoLocation, metadata,
                 videoFiles, currentTestId, isEditingExisting>>

\* onBack of the geo-location and the history screen
handleBackToDashboard ==
  /\ currentScreen \in {"geo-location", "upload-history"} /\ userInfo # Undefined
  /\ currentScreen' = "dashboard"
  /\ Unmounted
  /\ NoCall
  /\ UNCHANGED <<sessionId, userInfo, geoLocation, metadata, videoFiles,
                 currentTestId, isEditingExisting>>

\* Another client of the store deletes a test while the wizard runs.
OtherClientDelete ==
  \E t \in WizardTestIds : \E removed \in {{}, FilesOf(t)} :
    /\ kv[t] # Undefined
    /\ DeleteTest(t, removed)
    /\ UNCHANGED clientVars

WizardNext ==
  \/ (\E info \in WizardUsers : handleUserInfoSubmit(info)) /\ UNCHANGED screenVars
  \/ (\E t \in WizardTestIds : handleStartNewTest(t)) /\ UNCHANGED screenVars
  \/ (\E loc \in Geos : handleGeoLocationContinue(loc)) /\ UNCHANGED screenVars
  \/ (\E draft \in Drafts : onDraftChange(draft)) /\ UNCHANGED screenVars
  \/ (\E netOk \in BOOLEAN : handleMetadataSubmit(netOk)) /\ UNCHANGED screenVars
  \/ (MetadataBack) /\ UNCHANGED screenVars
  \/ (\E files \in {<< >>} \cup { <<f>> : f \in Files } : handleVideoUpload(files)) /\ UNCHANGED screenVars
  \/ (VideoUploadBack) /\ UNCHANGED screenVars
  \/ (\E screen \in {"video-upload", "metadata-form"} : ReviewBack(screen)) /\ UNCHANGED screenVars
  \/ (\E storageOk \in BOOLEAN : handleSubmit(storageOk)) /\ UNCHANGED screenVars
  \/ (handleViewHistory) /\ UNCHANGED screenVars
  \/ (\E test \in historyTests : onEditMetadata(test)) /\ UNCHANGED screenVars
  \/ (\E test \in historyTests : \E removed \in SUBSET bucket : handleDelete(test, removed)) /\ UNCHANGED screenVars
  \/ (handleBackToDashboard) /\ UNCHANGED screenVars
  \/ OtherClientDelete
  \/ Tick

\* The controller with one tester and one position, minting ids from
\* TestIds, so that a test can be started while another one is still held.
RestartNext ==
  \/ (handleUserInfoSubmit(AnyUser)) /\ UNCHANGED screenVars
  \/ (\E t \in TestIds : handleStartNewTest(t)) /\ UNCHANGED screenVars
  \/ (handleGeoLocationContinue(GeoA)) /\ UNCHANGED screenVars
  \/ (\E draft \in Drafts : onDraftChange(draft)) /\ UNCHANGED screenVars
  \/ (\E netOk \in BOOLEAN : handleMetadataSubmit(netOk)) /\ UNCHANGED screenVars
  \/ (MetadataBack) /\ UNCHANGED screenVars
  \/ (\E files \in {<< >>} \cup { <<f>> : f \in Files } : handleVideoUpload(files)) /\ UNCHANGED screenVars
  \/ (VideoUploadBack) /\ UNCHANGED screenVars
  \/ (\E screen \in {"video-upload", "metadata-form"} : ReviewBack(screen)) /\ UNCHANGED screenVars
  \/ (\E storageOk \in BOOLEAN : handleSubmit(storageOk)) /\ UNCHANGED screenVars
  \/ (handleViewHistory) /\ UNCHANGED screenVars
  \/ (\E test \in historyTests : onEditMetadata(test)) /\ UNCHANGED screenVars
  \/ (\E test \in historyTests : \E removed \in SUBSET bucket : handleDelete(test, removed)) /\ UNCHANGED screenVars
  \/ (handleBackToDashboard) /\ UNCHANGED screenVars

\* ==================================================== GeoLocationScreen
\* Numbers (latitude, longitude, accuracy) are integers counting tenths.
\* A text the user types is the sequence of its characters.
Digits == {"0", "1", "2", "3", "4", "5", "6", "7", "8", "9"}
DigitVal(c) ==
  CASE c = "0" -> 0 [] c = "1" -> 1 [] c = "2" -> 2 [] c = "3" -> 3 [] c = "4" -> 4
    [] c = "5" -> 5 [] c = "6" -> 6 [] c = "7" -> 7 [] c = "8" -> 8 [] OTHER -> 9

\* The length of the longest prefix of digits of text from position i on.
RECURSIVE DigitRun(_, _)
DigitRun(text, i) ==
  IF i <= Len(text) /\ text[i] \in Digits THEN 1 + DigitRun(text, i + 1) ELSE 0

\* The value of the digits text[i..i+n-1].
RECURSIVE DigitsValue(_, _, _)
DigitsValue(text, i, n) ==
  IF n = 0 THEN 0 ELSE DigitsValue(text, i, n - 1) * 10 + DigitVal(text[i + n - 1])

\* A parsed number is held as an option: NaN is the absent one.
NaN == Undefined
isNaN(x) == x = NaN

\* parseFloat(value): the longest prefix [sign] digits [. digits] of the
\* text, NaN when that prefix holds no digit; whatever follows the prefix is
\* ignored.  (Of the fraction the first digit is kept: numbers are tenths.)
parseFloat(text) ==
  LET signed == Len(text) > 0 /\ text[1] \in {"-", "+"}
      start == IF signed THEN 2 ELSE 1
      n == DigitRun(text, start)
      dot == start + n
      m == IF dot <= Len(text) /\ text[dot] = "." THEN DigitRun(text, dot + 1) ELSE 0
      tenths == DigitsValue(text, start, n) * 10
                + (IF m > 0 THEN DigitVal(text[dot + 1]) ELSE 0)
  IN IF n = 0 /\ m = 0 THEN NaN
     ELSE IF signed /\ text[1] = "-" THEN Some(0 - tenths) ELSE Some(tenths)

\* a || b on strings
Or(a, b) == IF a \in {"", Null} THEN b ELSE a

\* What the user types into the latitude / longitude inputs.
ManualTexts ==
  { <<"-", "7", ".", "5">>, <<"1", "2", "a", "b", "c">>, <<"a", "b", "c">>, << >> }
ManualNames == {"Austin", ""}

\* A GPS reading: position.coords.
Positions == { [latitude |-> 377, longitude |-> -1224, accuracy |-> 120] }
GpsErrorCodes == {1, 2, 3}  \* PERMISSION_DENIED, POSITION_UNAVAILABLE, TIMEOUT

\* Nominatim's data.address
Addresses ==
  { Some([city |-> "Austin", town |-> Null, village |-> Null, state |-> "Texas"]),
    Some([city |-> Null, town |-> Null, village |-> "Luckenbach", state |-> Null]) }

\* A fix handed to the screen as initialLocation.
GeoHeld ==
  [latitude |-> 341, longitude |-> -1182, city |-> "Los Angeles",
   state |-> "California", accuracy |-> 50, timestamp |-> 1]

\* What an IP service answers: the backend's {success, city, state} and the
\* public providers' {city, region, regionName}.
\* An answer is an option: Failed when the call threw or was not ok.
Failed == Undefined
BackendAnswers ==
  { Some([success |-> TRUE, city |-> "Dallas", state |-> "Texas"]),
    Some([success |-> TRUE, city |-> "", state |-> ""]),
    Some([success |-> FALSE, city |-> "", state |-> ""]) }
ProviderAnswers ==
  { Some([city |-> "Houston", region |-> "TX", regionName |-> "Texas"]),
    Some([city |-> "", region |-> "", regionName |-> ""]) }

\* services, as getDirectIPLocation lists them, in a different order
services_ipinfoFirst == <<"ipinfo.io", "ipapi.co", "ip-api.com">>
services == <<"ipapi.co", "ip-api.com", "ipinfo.io">>

\* The per-provider mapping of the response fields.
ProviderCityState(service, data) ==
  [city |-> Or(data.city, "Unknown"),
   state |-> IF service = "ip-api.com" THEN Or(data.regionName, "Unknown")
             ELSE Or(data.region, "Unknown")]

MsgUnsupported == "Geolocation is not supported by your browser"
MsgApproximate == "Using approximate location based on your IP address. GPS not available."

Idle == [pc |-> "idle", position |-> Undefined, gpsError |-> 0, service |-> 0]
NotMounted == [Idle EXCEPT !.pc = "unmounted"]
Mounting == [Idle EXCEPT !.pc = "mount"]

\* The component's state as useState initialises it.
GeoFresh ==
  /\ isLoading = FALSE
  /\ location = Undefined
  /\ error = Null
  /\ showManualEntry = FALSE
  /\ attempts = << >>
  /\ shownFor = [c \in GpsErrorCodes |-> Null]

\* No submission under way, the session id in the browser's storage, no
\* session written yet, no request being handled.
RestInit ==
  /\ isSubmitting = FALSE
  /\ currentStep = ""
  /\ sessions = [s \in SessionIds |-> Undefined]
  /\ localStorage = Some("s1")
  /\ sessionLookup = "none"
  /\ inflight = << >>

GeoScreenInit ==
  /\ geolocation = TRUE
  /\ initialLocation = Undefined
  /\ capture = NotMounted
  /\ GeoFresh

\* The log of calls: a call is entered as pending and settled when it returns.
Called(log, source) == Append(log, [source |-> source, outcome |-> "pending"])
Settled(log, outcome) == [log EXCEPT ![Len(log)].outcome = outcome]

Toast(level, message) == toasts' = << [level |-> level, message |-> message] >>
NoToast == toasts' = << >>

\* A screen handler leaves the store, the clock and the controller alone.
GeoOnly ==
  UNCHANGED <<storeVars, wizardVars, videoVars, restVars, geolocation, initialLocation>>

\* captureLocation up to its first await.
StartCapture ==
  /\ IF ~geolocation
     THEN /\ error' = MsgUnsupported
          /\ Toast("error", MsgUnsupported)
          /\ isLoading' = FALSE
          /\ showManualEntry' = TRUE
          /\ capture' = Idle
          /\ attempts' = << >>
     ELSE /\ error' = Null
          /\ NoToast
          /\ isLoading' = TRUE
          /\ capture' = [Idle EXCEPT !.pc = "gps"]
          /\ attempts' = Called(<< >>, "gps")
          /\ UNCHANGED showManualEntry
  /\ UNCHANGED <<location, shownFor>>

\* useEffect on mount: take over initialLocation, or capture.
GeoMount ==
  /\ capture.pc = "mount"
  /\ IF initialLocation # Undefined
     THEN /\ location' = Some([Val(initialLocation) EXCEPT
                                 !.timestamp = IF @ = NoTime THEN now ELSE @])
          /\ showManualEntry' = TRUE
          /\ capture' = Idle
          /\ NoToast
          /\ UNCHANGED <<isLoading, error, attempts, shownFor>>
     ELSE StartCapture
  /\ GeoOnly

\* The Refresh Location button (disabled while loading).
captureLocation ==
  /\ capture.pc = "idle" /\ ~isLoading
  /\ StartCapture
  /\ GeoOnly

\* getCurrentPosition resolves: reverseGeocode is called next.
GpsResolved(position) ==
  /\ capture.pc = "gps"
  /\ capture' = [capture EXCEPT !.pc = "geocode", !.position = Some(position)]
  /\ attempts' = Called(Settled(attempts, "ok"), "nominatim")
  /\ UNCHANGED <<isLoading, location, error, showManualEntry, shownFor, toasts>>
  /\ GeoOnly

\* reverseGeocode returns (address = Failed: it caught an error).
reverseGeocode(address) ==
  IF address = Failed THEN [city |-> "Unknown", state |-> "Unknown"]
  ELSE [city |-> Or(Val(address).city,
                    Or(Val(address).town, Or(Val(address).village, "Unknown"))),
        state |-> Or(Val(address).state, "Unknown")]

GeocodeReturned(address) ==
  /\ capture.pc = "geocode"
  /\ LET cityState == reverseGeocode(address)
         position == Val(capture.position)
     IN location' = Some([latitude |-> position.latitude,
                          longitude |-> position.longitude,
                          city |-> cityState.city, state |-> cityState.state,
                          accuracy |-> position.accuracy, timestamp |-> now])
  /\ error' = Null
  /\ showManualEntry' = FALSE
  /\ Toast("success", "Location captured successfully")
  /\ isLoading' = FALSE
  /\ capture' = Idle
  /\ attempts' = Settled(attempts, IF address = Failed THEN "failed" ELSE "ok")
  /\ UNCHANGED shownFor
  /\ GeoOnly

\* getCurrentPosition rejects: getIPBasedLocation is entered.
GpsRejected(code) ==
  /\ capture.pc = "gps"
  /\ capture' = [capture EXCEPT !.pc = "server", !.gpsError = code]
  /\ attempts' = Called(Settled(attempts, "failed"), "server")
  /\ UNCHANGED <<isLoading, location, error, showManualEntry, shownFor, toasts>>
  /\ GeoOnly

\* The end of the GPS-failure branch: ipLocation is at hand.
UseIpLocation(ipLocation) ==
  /\ location' = Some([latitude |-> 0, longitude |-> 0,
                       city |-> ipLocation.city, state |-> ipLocation.state,
                       accuracy |-> 0, timestamp |-> now])
  /\ error' = MsgApproximate
  /\ showManualEntry' = TRUE
  /\ Toast("info", "Using IP-based location as GPS fallback")
  /\ isLoading' = FALSE
  /\ shownFor' = [shownFor EXCEPT ![capture.gpsError] = MsgApproximate]
  /\ capture' = Idle

\* The next public provider is called.
TryService(i) ==
  /\ capture' = [capture EXCEPT !.pc = "direct", !.service = i]
  /\ attempts' = Called(Settled(attempts, "failed"), services[i])
  /\ UNCHANGED <<isLoading, location, error, showManualEntry, shownFor, toasts>>

\* The backend's /location/ip answers (answer = Failed: the fetch threw or
\* the response was not ok).
BackendAnswered(answer) ==
  /\ capture.pc = "server"
  /\ IF answer # Failed /\ Val(answer).success
     THEN /\ UseIpLocation([city |-> Or(Val(answer).city, "Unknown"),
                            state |-> Or(Val(answer).state, "Unknown")])
          /\ attempts' = Settled(attempts, "ok")
     ELSE TryService(1)
  /\ GeoOnly

\* A public provider answers (answer = Failed: the fetch threw, timed out
\* or the response was not ok).
ProviderAnswered(answer) ==
  /\ capture.pc = "direct"
  /\ IF answer # Failed
     THEN /\ UseIpLocation(ProviderCityState(services[capture.service], Val(answer)))
          /\ attempts' = Settled(attempts, "ok")
     ELSE IF capture.service < Len(services)
          THEN TryService(capture.service + 1)
          ELSE /\ UseIpLocation([city |-> "San Francisco", state |-> "California"])
               /\ attempts' = Settled(attempts, "failed")
  /\ GeoOnly

\* The manual inputs are rendered while showManualEntry holds.
ManualShown == capture.pc \notin {"unmounted", "mount"} /\ showManualEntry

ManualEdit(field, value, accepted) ==
  /\ ManualShown
  /\ IF accepted /\ location # Undefined
     THEN location' = Some([Val(location) EXCEPT ![field] = value])
     ELSE UNCHANGED location
  /\ UNCHANGED <<isLoading, error, showManualEntry, capture, attempts, shownFor, toasts>>
  /\ GeoOnly

handleManualLatitudeChange(value) ==
  LET lat == parseFloat(value)
  IN ManualEdit("latitude", IF isNaN(lat) THEN 0 ELSE Val(lat), ~isNaN(lat))
handleManualLongitudeChange(value) ==
  LET lng == parseFloat(value)
  IN ManualEdit("longitude", IF isNaN(lng) THEN 0 ELSE Val(lng), ~isNaN(lng))
handleManualCityChange(value) == ManualEdit("city", value, TRUE)
handleManualStateChange(value) == ManualEdit("state", value, TRUE)

\* Leaving the screen drops the component and its state.
GeoUnmount ==
  /\ capture' = NotMounted
  /\ isLoading' = FALSE
  /\ location' = Undefined
  /\ error' = Null
  /\ showManualEntry' = FALSE
  /\ attempts' = << >>
  /\ NoToast
  /\ UNCHANGED <<geolocation, initialLocation, shownFor, videoVars, restVars>>

\* handleContinue (the button is disabled without a location or while
\* loading): onContinue(location).
GeoContinue ==
  /\ capture.pc \notin {"unmounted", "mount"}
  /\ location # Undefined /\ ~isLoading
  /\ handleGeoLocationContinue(Val(location))
  /\ GeoUnmount

GeoBack ==
  /\ capture.pc \notin {"unmounted", "mount"}
  /\ currentScreen = "geo-location"
  /\ handleBackToDashboard
  /\ GeoUnmount

GeoNext ==
  \/ GeoMount
  \/ captureLocation
  \/ \E position \in Positions : GpsResolved(position)
  \/ \E address \in Addresses \cup {Failed} : GeocodeReturned(address)
  \/ \E code \in GpsErrorCodes : GpsRejected(code)
  \/ \E answer \in BackendAnswers \cup {Failed} : BackendAnswered(answer)
  \/ \E answer \in ProviderAnswers \cup {Failed} : ProviderAnswered(answer)
  \/ \E value \in ManualTexts : handleManualLatitudeChange(value)
  \/ \E value \in ManualTexts : handleManualLongitudeChange(value)
  \/ \E value \in ManualNames : handleManualCityChange(value)
  \/ \E value \in ManualNames : handleManualStateChange(value)
  \/ GeoContinue
  \/ GeoBack
  \/ Tick

\* The wizard has just entered geo-location (handleUserInfoSubmit, then
\* handleStartNewTest) and the screen is about to run its mount effect.
GeoInit ==
  /\ StoreInit
  /\ currentScreen = "geo-location"
  /\ sessionId = "s1"
  /\ userInfo = Some(AnyUser)
  /\ geoLocation = Undefined
  /\ metadata = Undefined
  /\ videoFiles = << >>
  /\ currentTestId = "t1"
  /\ isEditingExisting = FALSE
  /\ historyTests = {}
  /\ geolocation \in BOOLEAN
  /\ initialLocation \in {Undefined, Some(GeoHeld),
                          Some([GeoHeld EXCEPT !.timestamp = NoTime])}
  /\ capture = Mounting
  /\ GeoFresh
  /\ selectedFiles = << >>
  /\ toasts = << >>
  /\ RestInit

GeoSpec == GeoInit /\ [][GeoNext]_vars

\* ==================================================== VideoUploadScreen
\* A File of a drop or of the file input; its MIME type is the pair
\* <<type, subtype>> ("video/mp4"), << >> when the browser knows none.
\* The files of the folder the user picks from, as its listing orders them.
BatchPool ==
  << [name |-> "a.mp4", size |-> "10", type |-> <<"video", "mp4">>],
     [name |-> "notes.txt", size |-> "1", type |-> <<"text", "plain">>],
     [name |-> "b.mov", size |-> "20", type |-> <<"video", "quicktime">>],
     [name |-> "d.mkv", size |-> "40", type |-> << >>],
     [name |-> "c.webm", size |-> "30", type |-> <<"video", "webm">> ] >>

RECURSIVE Pick(_)
Pick(S) ==
  IF S = {} THEN << >>
  ELSE LET m == CHOOSE i \in S : \A j \in S : i <= j
       IN <<BatchPool[m]>> \o Pick(S \ {m})

\* The file lists of at most MaxBatch files of the folder.
MaxBatch == 5
Batches == { Pick(S) : S \in { T \in SUBSET DOMAIN BatchPool : Cardinality(T) <= MaxBatch } }
\* The change event of the file input comes with the files the user chose.
Chosen == { b \in Batches : Len(b) > 0 }

\* file.type.startsWith('video/')
IsVideo(file) == Len(file.type) > 0 /\ file.type[1] = "video"
\* Array.from(files).filter(file => file.type.startsWith('video/'))
VideoFilter(files) == SelectSeq(files, IsVideo)

\* `${n} video file${n > 1 ? 's' : ''} selected`
SelectedMessage(n) == <<n, IF n > 1 THEN "video files selected" ELSE "video file selected">>

\* prev.filter((_, i) => i !== index), with a slip: the first file goes.
RemoveAt_first(prev, index) == SubSeq(prev, 2, Len(prev))
\* prev.filter((_, i) => i !== index); index counts from 1 here.
RemoveAt(prev, index) ==
  [i \in 1..(Len(prev) - 1) |-> IF i < index THEN prev[i] ELSE prev[i + 1]]

VideoShown == currentScreen = "video-upload"
VideoOnly == UNCHANGED <<storeVars, wizardVars, geoVars, restVars>>

handleDrop(dropped) ==
  /\ VideoShown
  /\ LET files == VideoFilter(dropped)
     IN IF Len(files) > 0
        THEN /\ selectedFiles' = files
             /\ Toast("success", SelectedMessage(Len(files)))
        ELSE /\ Toast("error", "Please drop a valid video file")
             /\ UNCHANGED selectedFiles
  /\ VideoOnly

handleFileSelect(files) ==
  /\ VideoShown
  /\ IF Len(files) > 0
     THEN LET picked == VideoFilter(files)
          IN IF Len(picked) > 0
             THEN /\ selectedFiles' = picked
                  /\ Toast("success", SelectedMessage(Len(picked)))
             ELSE /\ Toast("error", "Please select a valid video file")
                  /\ UNCHANGED selectedFiles
     ELSE UNCHANGED <<selectedFiles, toasts>>
  /\ VideoOnly

handleRemoveFile(index) ==
  /\ VideoShown
  /\ index \in 1..Len(selectedFiles)
  /\ selectedFiles' = RemoveAt(selectedFiles, index)
  /\ Toast("info", "Video file removed")
  /\ VideoOnly

\* Leaving the screen drops the component and its state.
VideoUnmount ==
  /\ selectedFiles' = << >>
  /\ NoToast
  /\ UNCHANGED <<geoVars, restVars>>

\* handleContinue with a slip: the check of the selection is missing.
handleContinue_unguarded ==
  /\ handleVideoUpload(selectedFiles)
  /\ VideoUnmount
\* handleContinue. The button is disabled on an empty selection and the
\* handler checks the selection again.
handleContinue ==
  IF Len(selectedFiles) = 0
  THEN /\ VideoShown
       /\ Toast("error", "Please select a video file")
       /\ UNCHANGED selectedFiles
       /\ VideoOnly
  ELSE /\ handleVideoUpload(selectedFiles)
       /\ VideoUnmount

\* handleSkip: Upload Later
handleSkip ==
  /\ handleVideoUpload(<< >>)
  /\ VideoUnmount

VideoBack ==
  /\ VideoUploadBack
  /\ VideoUnmount

VideoNext ==
  \/ \E dropped \in Batches : handleDrop(dropped)
  \/ \E files \in Chosen : handleFileSelect(files)
  \/ \E index \in 1..MaxBatch : handleRemoveFile(index)
  \/ handleContinue
  \/ handleSkip
  \/ VideoBack
  \/ Tick

\* The wizard has just entered video-upload and the screen's effect has
\* copied the controller's videoFiles into selectedFiles.
VideoInit ==
  /\ StoreInit
  /\ currentScreen = "video-upload"
  /\ sessionId = "s1"
  /\ userInfo = Some(AnyUser)
  /\ geoLocation = Some(GeoA)
  /\ metadata = Some(MetaD1c)
  /\ videoFiles \in { b \in Batches : Len(b) <= 1 /\ VideoFilter(b) = b }
  /\ currentTestId = "t1"
  /\ isEditingExisting = FALSE
  /\ historyTests = {}
  /\ GeoScreenInit
  /\ selectedFiles = videoFiles
  /\ toasts = << >>
  /\ RestInit

VideoSpec == VideoInit /\ [][VideoNext]_vars

ScreensInit == GeoScreenInit /\ selectedFiles = << >> /\ toasts = << >> /\ RestInit

\* =================================================== ReviewSubmitScreen
\* handleSubmit between its awaits. currentStep tells which response the
\* handler waits for.
StepSaving == "Saving metadata..."
StepUploading == "Uploading video to S3..."
StepFinalizing == "Finalizing submission..."

ReviewOnly == UNCHANGED <<geoVars, videoVars, sessionVars, raceVars>>

\* testData of step 1
SubmitBody ==
  LET wizard == [EmptyBody EXCEPT !.testId = currentTestId,
                                  !.userInfo = userInfo, !.geoLocation = geoLocation,
                                  !.metadata = metadata]
  IN IF Len(videoFiles) > 0
     THEN [wizard EXCEPT !.videoFileName = Some(<<videoFiles[1].name>>)]
     ELSE wizard

\* The Submit button is rendered and not disabled.
SubmitEnabled == ReviewShown /\ ~isSubmitting

\* The Submit button: handleSubmit up to the first fetch.
PressSubmit ==
  /\ SubmitEnabled
  /\ isSubmitting' = TRUE
  /\ currentStep' = StepSaving
  /\ NoToast
  /\ NoCall
  /\ UNCHANGED wizardVars
  /\ ReviewOnly

\* The catch block with a slip: the button stays disabled.
SubmitFailed_staysBusy ==
  /\ Toast("error", "Submission failed")
  /\ isSubmitting' = TRUE
  /\ currentStep' = ""
  /\ UNCHANGED wizardVars
\* The catch block.
SubmitFailed ==
  /\ Toast("error", "Submission failed")
  /\ isSubmitting' = FALSE
  /\ currentStep' = ""
  /\ UNCHANGED wizardVars

\* Step 1 returns: POST /tests. netOk = FALSE: the fetch throws.
MetadataResponded(netOk) ==
  /\ ReviewShown /\ isSubmitting /\ currentStep = StepSaving
  /\ LET postReq == [op |-> "POST /tests", testId |-> currentTestId, body |-> SubmitBody]
         post == PostHandler(Store, SubmitBody, now)
     IN /\ IF netOk THEN Install(postReq, post, postReq = request) ELSE NoCall
        /\ IF netOk /\ post.status = 200
           THEN /\ currentStep' = (IF Len(videoFiles) > 0 THEN StepUploading
                                                       ELSE StepFinalizing)
                /\ NoToast
                /\ UNCHANGED <<isSubmitting, wizardVars>>
           ELSE SubmitFailed
  /\ ReviewOnly

\* Step 2 returns: POST /upload-video.
UploadResponded(netOk, storageOk) ==
  /\ ReviewShown /\ isSubmitting /\ currentStep = StepUploading
  /\ LET upReq == [op |-> "POST /upload-video", testId |-> currentTestId,
                   body |-> [file |-> videoFiles[1], storageOk |-> storageOk]]
         up == UploadHandler(Store, currentTestId, videoFiles[1], storageOk, now)
     IN /\ IF netOk THEN Install(upReq, up, FALSE) ELSE NoCall
        /\ IF netOk /\ up.status = 200
           THEN /\ currentStep' = StepFinalizing
                /\ NoToast
                /\ UNCHANGED <<isSubmitting, wizardVars>>
           ELSE SubmitFailed
  /\ ReviewOnly

\* After the last step: toast.success and onSubmitComplete().
SubmitFinalized ==
  /\ ReviewShown /\ isSubmitting /\ currentStep = StepFinalizing
  /\ Toast("success", "Test submitted successfully!")
  /\ handleSubmitComplete
  /\ isSubmitting' = FALSE
  /\ currentStep' = ""
  /\ NoCall
  /\ UNCHANGED <<sessionId, userInfo, historyTests>>
  /\ ReviewOnly

\* The Back buttons (disabled while isSubmitting).
ReviewLeave(screen) ==
  /\ ~isSubmitting
  /\ ReviewBack(screen)
  /\ NoToast
  /\ UNCHANGED reviewVars
  /\ ReviewOnly

ReviewNext ==
  \/ PressSubmit
  \/ \E netOk \in BOOLEAN : MetadataResponded(netOk)
  \/ \E netOk \in BOOLEAN : \E storageOk \in BOOLEAN : UploadResponded(netOk, storageOk)
  \/ SubmitFinalized
  \/ \E screen \in {"video-upload", "metadata-form"} : ReviewLeave(screen)
  \/ OtherClientDelete
  \/ Tick

\* The wizard has just entered review-submit.
ReviewInit ==
  /\ StoreInit
  /\ currentScreen = "review-submit"
  /\ sessionId = "s1"
  /\ userInfo = Some(AnyUser)
  /\ geoLocation \in { Some(g) : g \in Geos }
  /\ metadata \in { Some(m) : m \in FormMetas }
  /\ videoFiles \in {<< >>} \cup { <<f>> : f \in Files }
  /\ currentTestId = "t1"
  /\ isEditingExisting = FALSE
  /\ historyTests = {}
  /\ ScreensInit

ReviewSpec == ReviewInit /\ [][ReviewNext]_vars

\* ============================================================ sessions
\* app.post /session: the entry is written whatever is stored under the key.
PostSession(stored, sid, userName, email, clock) ==
  IF sid = "" \/ userName = "" \/ email = ""
  THEN [sessions |-> stored, status |-> 400]
  ELSE [sessions |-> [stored EXCEPT ![sid] = Some([userName |-> userName, email |-> email,
                                                   createdAt |-> clock])],
        status |-> 200]

\* app.get /session/:sessionId
GetSession(stored, sid) ==
  IF sid \notin DOMAIN stored \/ stored[sid] = Undefined
  THEN [status |-> 404, body |-> Undefined]
  ELSE [status |-> 200, body |-> stored[sid]]

SessionOnly == UNCHANGED <<storeVars, geoVars, videoVars, reviewVars, raceVars>>

\* The page is (re)loaded: App is constructed anew; a lookup of the page
\* before is dropped with it. The effect of the mount has not run yet.
AppLoad ==
  /\ currentScreen' = "user-info"
  /\ sessionId' = ""
  /\ userInfo' = Undefined
  /\ geoLocation' = Undefined
  /\ metadata' = Undefined
  /\ videoFiles' = << >>
  /\ currentTestId' = ""
  /\ isEditingExisting' = FALSE
  /\ historyTests' = {}
  /\ sessionLookup' = "mount"
  /\ NoToast
  /\ UNCHANGED <<sessions, localStorage>>
  /\ SessionOnly

\* useEffect on mount: restore the stored id and start fetchSession, or mint
\* an id and store it.
MountEffect ==
  /\ sessionLookup = "mount"
  /\ IF localStorage # Undefined
     THEN /\ sessionId' = Val(localStorage)
          /\ sessionLookup' = "pending"
          /\ UNCHANGED localStorage
     ELSE \E newSessionId \in SessionIds :
            /\ sessions[newSessionId] = Undefined
            /\ sessionId' = newSessionId
            /\ localStorage' = Some(newSessionId)
            /\ sessionLookup' = "none"
  /\ NoToast
  /\ UNCHANGED <<currentScreen, userInfo, geoLocation, metadata, videoFiles,
                 currentTestId, isEditingExisting, historyTests, sessions>>
  /\ SessionOnly

\* fetchSession after its await with a slip: the dashboard is shown also
\* when the lookup failed.
FetchSessionReturned_anyAnswer(netOk) ==
  /\ sessionLookup = "pending"
  /\ sessionLookup' = "none"
  /\ LET got == GetSession(sessions, Val(localStorage))
     IN /\ currentScreen' = "dashboard"
        /\ IF netOk /\ got.status = 200
           THEN userInfo' = Some([userName |-> Val(got.body).userName,
                                  email |-> Val(got.body).email])
           ELSE UNCHANGED userInfo
  /\ NoToast
  /\ UNCHANGED <<sessionId, geoLocation, metadata, videoFiles, currentTestId,
                 isEditingExisting, historyTests, sessions, localStorage>>
  /\ SessionOnly
\* fetchSession after its await: GET /session/:sid has answered, or the
\* fetch has thrown (netOk = FALSE).
FetchSessionReturned(netOk) ==
  /\ sessionLookup = "pending"
  /\ sessionLookup' = "none"
  /\ LET got == GetSession(sessions, Val(localStorage))
     IN IF netOk /\ got.status = 200
        THEN /\ userInfo' = Some([userName |-> Val(got.body).userName,
                                  email |-> Val(got.body).email])
             /\ currentScreen' = "dashboard"
        ELSE UNCHANGED <<userInfo, currentScreen>>
  /\ NoToast
  /\ UNCHANGED <<sessionId, geoLocation, metadata, videoFiles, currentTestId,
                 isEditingExisting, historyTests, sessions, localStorage>>
  /\ SessionOnly

\* UserInfoScreen.handleSubmit with the tester picked from USERS: POST
\* /session {sessionId, userName, email}, then onSubmit({userName, email}).
UserInfoSubmit(user, netOk) ==
  /\ currentScreen = "user-info" /\ sessionLookup # "mount"
  /\ LET post == PostSession(sessions, sessionId, user.userName, user.email, now)
     IN /\ sessions' = (IF netOk THEN post.sessions ELSE sessions)
        /\ IF netOk /\ post.status = 200
           THEN /\ Toast("success", "Welcome! Session created successfully")
                /\ handleUserInfoSubmit(user)
           ELSE /\ Toast("error", "Failed to create session")
                /\ UNCHANGED wizardVars
  /\ UNCHANGED <<localStorage, sessionLookup>>
  /\ SessionOnly

\* A handler of the controller, the session left as it is.
Controller(step) ==
  /\ step
  /\ NoToast
  /\ UNCHANGED <<sessionVars, geoVars, videoVars, reviewVars, raceVars>>

SessionNext ==
  \/ AppLoad
  \/ MountEffect
  \/ \E netOk \in BOOLEAN : FetchSessionReturned(netOk)
  \/ \E user \in USERS : \E netOk \in BOOLEAN : UserInfoSubmit(user, netOk)
  \/ \E t \in WizardTestIds : Controller(handleStartNewTest(t))
  \/ Controller(handleBackToDashboard)
  \/ Controller(handleViewHistory)
  \/ Tick

\* The first load of the page on a device that has stored no session id.
SessionInit ==
  /\ StoreInit
  /\ currentScreen = "user-info"
  /\ sessionId = ""
  /\ userInfo = Undefined
  /\ geoLocation = Undefined
  /\ metadata = Undefined
  /\ videoFiles = << >>
  /\ currentTestId = ""
  /\ isEditingExisting = FALSE
  /\ historyTests = {}
  /\ GeoScreenInit /\ selectedFiles = << >> /\ toasts = << >>
  /\ isSubmitting = FALSE /\ currentStep = ""
  /\ sessions = [s \in SessionIds |-> Undefined]
  /\ localStorage = Undefined
  /\ sessionLookup = "mount"
  /\ inflight = << >>

SessionSpec == SessionInit /\ [][SessionNext]_vars

\* ============================== POST /upload-video, one await at a time
\* Two uploads for the same test are handled at once. Each request keeps
\* what the handler holds in its local variables between its awaits.
RaceTest == "t1"
RaceFiles ==
  << [name |-> "clip.mp4", size |-> "10", type |-> "video/mp4"],
     [name |-> "dash.mp4", size |-> "20", type |-> "video/mp4"] >>
Requests == DOMAIN RaceFiles

Arrived(file) ==
  [pc |-> "arrived", file |-> file, clock |-> NoTime, fileName |-> Undefined,
   test |-> Undefined, status |-> 0]
Answer(r, status) == [r EXCEPT !.pc = "answered", !.status = status]
NextVideoOf(r) ==
  NextVideo(Val(r.fileName), SignedUrl(Val(r.fileName)), r.file, r.clock)

RaceOnly == UNCHANGED <<wizardVars, geoVars, videoVars, toasts, reviewVars, sessionVars>>
RaceFrame == UNCHANGED <<now, request, response, repeated>> /\ RaceOnly

\* const now = new Date(); fileName; await storage.upload(fileName, ...)
\* and createSignedUrl. storageOk = FALSE: the bucket refuses the write.
StoreBlob(i, storageOk) ==
  /\ inflight[i].pc = "arrived"
  /\ LET fileName == StorageKey(RaceTest, now, inflight[i].file)
     IN IF ~storageOk \/ fileName \in bucket
        THEN /\ inflight' = [inflight EXCEPT ![i] = Answer(@, 500)]
             /\ UNCHANGED bucket
        ELSE /\ inflight' = [inflight EXCEPT ![i].pc = "stored", ![i].clock = now,
                                             ![i].fileName = Some(fileName)]
             /\ bucket' = bucket \cup {fileName}
  /\ UNCHANGED <<kv, tests, test_videos>>
  /\ RaceFrame

\* const test = await kv.get(`test:${testId}`)
ReadTest(i) ==
  /\ inflight[i].pc = "stored"
  /\ inflight' = [inflight EXCEPT ![i] =
                    IF kv[RaceTest] = Undefined THEN Answer(@, 404)
                    ELSE [@ EXCEPT !.pc = "read", !.test = kv[RaceTest]]]
  /\ UNCHANGED <<kv, tests, test_videos, bucket>>
  /\ RaceFrame

\* await kv.set(`test:${testId}`, {...test, videos: [...existingVideos, nextVideo], ...})
WriteTest(i) ==
  /\ inflight[i].pc = "read"
  /\ kv' = [kv EXCEPT ![RaceTest] =
              Some(UploadKvRecord(Val(inflight[i].test), NextVideoOf(inflight[i]),
                                  inflight[i].clock))]
  /\ inflight' = [inflight EXCEPT ![i].pc = "written"]
  /\ UNCHANGED <<tests, test_videos, bucket>>
  /\ RaceFrame

\* The insert into test_videos, the update of tests, and the answer.
WriteRows(i) ==
  /\ inflight[i].pc = "written"
  /\ test_videos' = InsertVideoRow(test_videos, tests[RaceTest], RaceTest,
                                   NextVideoOf(inflight[i]))
  /\ tests' = [tests EXCEPT ![RaceTest] =
                 UploadRow(@, NextVideoOf(inflight[i]), inflight[i].clock)]
  /\ inflight' = [inflight EXCEPT ![i] = Answer(@, 200)]
  /\ UNCHANGED <<kv, bucket>>
  /\ RaceFrame

\* Both uploads are answered.
AllAnswered == \A i \in Requests : inflight[i].pc = "answered"

\* A later DELETE /tests/:testId whose bulk remove removes all it is asked to.
DeleteAfterwards ==
  /\ AllAnswered
  /\ DeleteTest(RaceTest, FilesOf(RaceTest))
  /\ UNCHANGED clientVars

RaceNext ==
  \/ \E i \in Requests : \E storageOk \in BOOLEAN : StoreBlob(i, storageOk)
  \/ \E i \in Requests : ReadTest(i)
  \/ \E i \in Requests : WriteTest(i)
  \/ \E i \in Requests : WriteRows(i)
  \/ DeleteAfterwards
  \/ Tick

\* The test has been created by the wizard's POST; two uploads for it have
\* arrived.
RaceInit ==
  /\ LET body == WizardBody(RaceTest, "s1", AnyUser, GeoA, MetaD1c)
         empty == [kv |-> [t \in TestIds |-> Undefined],
                   tests |-> [t \in TestIds |-> Undefined],
                   test_videos |-> << >>, bucket |-> {}]
         created == PostHandler(empty, body, 1)
     IN /\ kv = created.store.kv
        /\ tests = created.store.tests
        /\ test_videos = created.store.test_videos
        /\ bucket = created.store.bucket
        /\ request = [op |-> "POST /tests", testId |-> RaceTest, body |-> body]
        /\ response = [status |-> created.status]
  /\ now = 1
  /\ repeated = FALSE
  /\ WizardInit
  /\ GeoScreenInit /\ selectedFiles = << >> /\ toasts = << >>
  /\ isSubmitting = FALSE /\ currentStep = ""
  /\ sessions = [s \in SessionIds |-> Undefined]
  /\ localStorage = Some("s1")
  /\ sessionLookup = "none"
  /\ inflight = [i \in Requests |-> Arrived(RaceFiles[i])]

RaceSpec == RaceInit /\ [][RaceNext]_vars

Init == StoreInit /\ WizardInit /\ ScreensInit
Next == StoreNext
Spec == Init /\ [][Next]_vars
WizardSpec == Init /\ [][WizardNext]_vars
RestartSpec == Init /\ [][RestartNext]_vars
PartialSpec == Init /\ [][PartialNext]_vars

\* ======================================================== properties
VideosOf(rec) == ArrayOrEmpty(rec.videos)
RowsOf(testId) == VideoRows(test_videos, testId)

\* A PUT body that carries exactly one metadata field and nothing else.
TouchedFields(updates) == { k \in MetaKeys : Leaf(updates.metadata, k) # Null }
SingleFieldPatch(updates) ==
  /\ updates = [EmptyUpdates EXCEPT !.metadata = updates.metadata]
  /\ Cardinality(TouchedFields(updates)) = 1

\* The step serves a PUT (a POST, an upload, a DELETE): the request it
\* records is of that kind and the step is the handler's.
PutStep == /\ request'.op = "PUT /tests/:testId"
           /\ PutTest(request'.testId, request'.body)
PostStep == /\ request'.op = "POST /tests"
            /\ PostTest(request'.body)
UploadStep == /\ request'.op = "POST /upload-video"
              /\ UploadVideo(request'.testId, request'.body.file, request'.body.storageOk)
DeleteStep == /\ request'.op = "DELETE /tests/:testId"
              /\ DeleteTest(request'.testId, request'.body.removed)

\* C1 (as claimed): a PUT that carries one metadata field leaves every other
\* metadata field, every geo field and every video reference of an existing
\* record unchanged, in the key-value record and in the relational rows.
C1_MergeNotReplace ==
  [][LET t == request'.testId
         u == request'.body
     IN (PutStep /\ SingleFieldPatch(u) /\ kv[t] # Undefined /\ tests[t] # Undefined)
        => /\ \A k \in MetaKeys \ TouchedFields(u) :
                Leaf(Val(kv'[t]).metadata, k) = Leaf(Val(kv[t]).metadata, k)
           /\ \A k \in MetaColumns \ TouchedFields(u) :
                Val(tests'[t]).meta[k] = Val(tests[t]).meta[k]
           /\ Val(kv'[t]).geoLocation = Val(kv[t]).geoLocation
           /\ Val(tests'[t]).geo = Val(tests[t]).geo
           /\ VideosOf(Val(kv'[t])) = VideosOf(Val(kv[t]))
           /\ test_videos' = test_videos]_vars

\* C2 (as claimed): a PUT on a testId without a record answers 404 and
\* creates no record.
C2_PutNotFound ==
  [][LET t == request'.testId
     IN (PutStep /\ kv[t] = Undefined /\ tests[t] = Undefined)
        => /\ response'.status = 404
           /\ kv'[t] = Undefined
           /\ tests'[t] = Undefined]_vars

\* A body the wizard sends in create mode: the form passed validation.
ValidMetadata(m) == \A k \in requiredFields : m[k] # Null /\ m[k] # ""
CreateBody(b) ==
  /\ b.testId # Null
  /\ b.metadata # Undefined
  /\ ValidMetadata(Val(b.metadata))

\* The step is a submission of the metadata form in edit mode.
EditSubmitStep ==
  /\ MetadataFormShown /\ isEditingExisting
  /\ \E netOk \in BOOLEAN : handleMetadataSubmit(netOk)
\* What createOrUpdateTest with the held user, geo and form data would leave.
DirectCreate ==
  PostHandler(Store, WizardBody(currentTestId, sessionId, Val(userInfo),
                                Val(geoLocation), FormData), now).store
CountedAsSuccess == ~isEditingExisting' /\ currentScreen' = "upload-history"

\* C3 (as claimed): when the wizard submits metadata in edit mode for a
\* testId that has no record, whatever the submission leaves in the store is
\* the record a direct create with the held user, geo and metadata would
\* have produced, and the submission is counted as success (edit flag
\* cleared, screen upload-history) only with that record in place.
C3_UpdateThenCreateFallback ==
  [][(EditSubmitStep /\ kv[currentTestId] = Undefined /\ tests[currentTestId] = Undefined)
     => ((CountedAsSuccess \/ kv' # kv \/ tests' # tests)
         => /\ kv' = DirectCreate.kv
            /\ tests' = DirectCreate.tests)]_vars

\* C4 (as claimed): right after a successful create-mode POST of T, GET of T
\* answers 200 with every submitted metadata field, the comment included.
C4_CreateFetchRoundTrip ==
  (request.op = "POST /tests" /\ response.status = 200 /\ CreateBody(request.body))
  => /\ GetTest(request.testId).status = 200
     /\ \A k \in MetaKeys :
          Val(request.body.metadata)[k] # Null
          => /\ k \in DOMAIN Val(GetTest(request.testId).body).metadata
             /\ Val(GetTest(request.testId).body).metadata[k] = Val(request.body.metadata)[k]

\* Equality of two stored objects / rows up to the update stamp.
SameButUpdatedAt(a, b) == [a EXCEPT !.updatedAt = NoTime] = [b EXCEPT !.updatedAt = NoTime]
SameRowButUpdatedAt(a, b) == [a EXCEPT !.updated_at = NoTime] = [b EXCEPT !.updated_at = NoTime]

\* C5: a POST /tests that repeats, with an identical body, the successful
\* POST served just before it leaves the stored object and the row as the
\* first call left them, except for updatedAt / updated_at; createdAt, status
\* and the video references (object, rows, blobs) are the same.
C5_UpsertIdempotent ==
  [][LET t == request'.testId
     IN (/\ PostStep /\ response'.status = 200
         /\ request.op = "POST /tests" /\ request = request' /\ response.status = 200)
        => /\ kv'[t] # Undefined /\ tests'[t] # Undefined
           /\ SameButUpdatedAt(Val(kv'[t]), Val(kv[t]))
           /\ SameRowButUpdatedAt(Val(tests'[t]), Val(tests[t]))
           /\ test_videos' = test_videos
           /\ bucket' = bucket]_vars

\* C5 witness: the same body was posted twice in a row, the second time at a
\* later clock value, on a record that already held a video.
C5_Witness ==
  /\ repeated /\ request.op = "POST /tests" /\ response.status = 200
  /\ Val(kv[request.testId]).createdAt < now
  /\ Val(kv[request.testId]).updatedAt = now
  /\ Val(kv[request.testId]).status = "completed"

C8_UploadNotFound ==
  [][LET t == request'.testId
     IN (UploadStep /\ t # Null /\ kv[t] = Undefined)
        => /\ response'.status = 404
           /\ kv' = kv /\ tests' = tests /\ test_videos' = test_videos]_vars

\* A body or patch that carries no video and no status.
NoVideoBody(b) == b.status = Null /\ b.videos = Undefined /\ b.videoFileName = Undefined
StatusIs(k, r, t, st) ==
  /\ k[t] # Undefined /\ Val(k[t]).status = st
  /\ r[t] # Undefined /\ Val(r[t]).status = st

\* C9: a record created by a POST without a video is pending; a pending
\* record stays pending across POSTs and PUTs that carry no status of their
\* own; the first successful upload makes it completed, makes its video
\* list one reference long with a file name that contains the testId, and
\* mirrors that reference into the latest-video fields.
C9_StatusLifecycle ==
  [][LET t == request'.testId
         first == VideosOf(Val(kv'[t]))[1]
     IN /\ (PostStep /\ response'.status = 200 /\ NoVideoBody(request'.body)
            /\ kv[t] = Undefined /\ tests[t] = Undefined)
           => StatusIs(kv', tests', t, "pending")
        /\ (PostStep /\ response'.status = 200 /\ request'.body.status = Null
            /\ StatusIs(kv, tests, t, "pending"))
           => StatusIs(kv', tests', t, "pending")
        /\ (PutStep /\ request'.body.status = Null /\ StatusIs(kv, tests, t, "pending"))
           => StatusIs(kv', tests', t, "pending")
        /\ (UploadStep /\ response'.status = 200
            /\ VideoCount(t) = 0 /\ RowsOf(t) = << >>)
           => /\ StatusIs(kv', tests', t, "completed")
              /\ Len(VideosOf(Val(kv'[t]))) = 1
              /\ \E i \in DOMAIN first.fileName : first.fileName[i] = t
              /\ Val(kv'[t]).videoFileName = Some(first.fileName)
              /\ Val(kv'[t]).videoUrl = first.url
              /\ Len(VideoRows(test_videos', t)) = 1
              /\ VideoOfRow(VideoRows(test_videos', t)[1]) = first
              /\ Val(tests'[t]).latest_video_file_name = Val(kv'[t]).videoFileName
              /\ Val(tests'[t]).latest_video_url = Val(kv'[t]).videoUrl]_vars

\* C9 witness: the first upload of a record has been served.
C9_Witness ==
  /\ request.op = "POST /upload-video" /\ response.status = 200
  /\ StatusIs(kv, tests, request.testId, "completed")
  /\ Len(VideosOf(Val(kv[request.testId]))) = 1
  /\ Val(kv[request.testId]).createdAt < now

\* C10 (as claimed): the object under test:<id> and the relational rows are
\* both absent, or both present with equal user, geo, metadata, status,
\* latest-video and video-list values.
MirrorConsistent(t) ==
  /\ (kv[t] = Undefined) <=> (tests[t] = Undefined)
  /\ kv[t] # Undefined =>
       LET rec == Val(kv[t])
           row == Val(tests[t])
       IN /\ Leaf(rec.userInfo, "userName") = row.user_name
          /\ Leaf(rec.userInfo, "email") = row.email
          /\ \A k \in GeoKeys : Leaf(rec.geoLocation, k) = row.geo[k]
          /\ \A k \in MetaColumns : Leaf(rec.metadata, k) = row.meta[k]
          /\ rec.status = row.status
          /\ rec.videoFileName = row.latest_video_file_name
          /\ rec.videoUrl = row.latest_video_url
          /\ VideosOf(rec) = [i \in 1..Len(RowsOf(t)) |-> VideoOfRow(RowsOf(t)[i])]

C10_MirrorConsistency == \A t \in TestIds : MirrorConsistent(t)

\* The blob keys a stored record refers to: the latest-video file name and
\* the entries of the video list, in the key-value object and in the rows.
ReferencedKeys(t) ==
  (IF kv[t] = Undefined THEN {}
   ELSE { v.fileName : v \in Range(VideosOf(Val(kv[t]))) }
        \cup (IF Val(kv[t]).videoFileName = Undefined THEN {}
              ELSE {Val(Val(kv[t]).videoFileName)}))
  \cup
  (IF tests[t] = Undefined \/ Val(tests[t]).latest_video_file_name = Undefined THEN {}
   ELSE {Val(Val(tests[t]).latest_video_file_name)})
  \cup { r.file_name : r \in Range(RowsOf(t)) }

\* C11 (as claimed): every blob key a stored record refers to names a blob
\* that exists in the bucket, after any sequence of wizard submissions,
\* uploads and deletes.
C11_BlobReference == \A t \in TestIds : ReferencedKeys(t) \subseteq bucket

\* The fallback chain in the order the claim gives it.
Chain == <<"gps", "server", "ipapi.co", "ip-api.com", "ipinfo.io">>
ChainPos(source) == CHOOSE i \in DOMAIN Chain : Chain[i] = source

\* C12: in every capture the first source called, if any, is GPS; a source
\* of the chain GPS, server IP endpoint, ipapi.co, ip-api.com, ipinfo.io is
\* called only right after its predecessor in the chain has failed; a failed
\* GPS is followed by the server IP endpoint; and after a call that
\* succeeded no source of the chain is called any more.
C12_FallbackOrdering ==
  /\ attempts # << >> => attempts[1].source = "gps"
  /\ \A i \in 2..Len(attempts) :
       IF attempts[i].source = "nominatim"
       THEN attempts[i-1].source = "gps" /\ attempts[i-1].outcome = "ok"
       ELSE /\ attempts[i].source \in Range(Chain)
            /\ attempts[i-1].source \in Range(Chain)
            /\ ChainPos(attempts[i].source) = ChainPos(attempts[i-1].source) + 1
            /\ attempts[i-1].outcome = "failed"
  /\ (attempts # << >> /\ attempts[1].outcome = "failed")
       => (Len(attempts) >= 2 /\ attempts[2].source = "server")
  /\ \A i \in 1..Len(attempts) :
       (attempts[i].outcome = "failed" /\ attempts[i].source \in {"server", "ipapi.co", "ip-api.com"})
       => Len(attempts) > i

\* C12 witness: GPS, the server endpoint and ipapi.co failed in turn and
\* ip-api.com answered; ipinfo.io was not called.
C12_Witness ==
  /\ capture.pc = "idle"
  /\ Len(attempts) = 4
  /\ attempts[4] = [source |-> "ip-api.com", outcome |-> "ok"]
  /\ location # Undefined /\ Val(location).city = "Houston"

\* The step ends a capture in which GPS, the server IP endpoint and every
\* public provider failed.
AllSourcesFailed ==
  /\ capture.pc = "direct" /\ capture'.pc = "idle"
  /\ Len(attempts') = Len(Chain)
  /\ \A i \in DOMAIN attempts' : attempts'[i].outcome = "failed"

\* C13 (as claimed): when GPS, the server IP endpoint and every public
\* provider have failed, the capture ends with a fix whose latitude and
\* longitude are 0 and whose city and state are "Unknown", in manual-entry
\* mode.
C13_AllFailUnknown ==
  [][AllSourcesFailed
     => /\ location' # Undefined
        /\ Val(location').latitude = 0 /\ Val(location').longitude = 0
        /\ Val(location').city = "Unknown" /\ Val(location').state = "Unknown"
        /\ showManualEntry']_vars

\* C14 (as claimed): the three causes of a GPS failure (permission denied,
\* position unavailable, timeout) end with three different error texts on
\* the screen.
C14_DistinctRemediation ==
  \A c1 \in GpsErrorCodes : \A c2 \in GpsErrorCodes :
    (c1 # c2 /\ shownFor[c1] # Null /\ shownFor[c2] # Null)
    => shownFor[c1] # shownFor[c2]

\* The whole text is a number: [sign] digits [. digits], nothing after it.
IsNumber(text) ==
  LET signed == Len(text) > 0 /\ text[1] \in {"-", "+"}
      start == IF signed THEN 2 ELSE 1
      n == DigitRun(text, start)
      dot == start + n
      m == IF dot <= Len(text) /\ text[dot] = "." THEN DigitRun(text, dot + 1) ELSE 0
  IN /\ n + m > 0
     /\ Len(text) = (start - 1) + n + (IF m > 0 THEN 1 + m ELSE 0)

\* The fix after the step differs from the fix before it at most in field.
OnlyFieldChanged(field) ==
  /\ location' # Undefined
  /\ [Val(location') EXCEPT ![field] = Val(location)[field]] = Val(location)

\* C15 (as claimed): a manual edit of latitude, longitude, city or state on
\* a held fix changes only that field; a latitude or longitude edit whose
\* text is not a number changes nothing.
C15_ManualEditFrame ==
  [][location # Undefined =>
     /\ \A value \in ManualTexts :
          /\ handleManualLatitudeChange(value)
             => /\ OnlyFieldChanged("latitude")
                /\ ~IsNumber(value) => location' = location
          /\ handleManualLongitudeChange(value)
             => /\ OnlyFieldChanged("longitude")
                /\ ~IsNumber(value) => location' = location
     /\ \A value \in ManualNames :
          /\ handleManualCityChange(value) => OnlyFieldChanged("city")
          /\ handleManualStateChange(value) => OnlyFieldChanged("state")]_vars

\* The batch holds k >= 1 video files and m >= 1 other files.
Mixed(batch) == Len(VideoFilter(batch)) >= 1 /\ Len(VideoFilter(batch)) < Len(batch)
\* A toast that tells the user something was turned down.
RejectionShown == \E i \in DOMAIN toasts' : toasts'[i].level \in {"error", "warning"}

\* C16 (as claimed): dropping or selecting a batch of k >= 1 video files and
\* m >= 1 other files makes exactly the k video files the selection and
\* shows the user a rejection notice for the others.
C16_MixedBatch ==
  [][\A batch \in Batches :
       (Mixed(batch) /\ (handleDrop(batch) \/ (batch \in Chosen /\ handleFileSelect(batch))))
       => /\ selectedFiles' = VideoFilter(batch)
          /\ RejectionShown]_vars

\* The frame conditions of a selection that qualifies, and of a removal.
ReplacesOrRemoves ==
  /\ \A batch \in Batches :
       (Len(VideoFilter(batch)) > 0 /\ (handleDrop(batch) \/ handleFileSelect(batch)))
       => selectedFiles' = VideoFilter(batch)
  /\ \A index \in 1..MaxBatch :
       handleRemoveFile(index)
       => /\ Len(selectedFiles') = Len(selectedFiles) - 1
          /\ \A i \in 1..Len(selectedFiles') :
               selectedFiles'[i] = selectedFiles[IF i < index THEN i ELSE i + 1]

C18_StartNewTestReset ==
  [][(currentScreen = "dashboard" /\ currentScreen' = "geo-location")
     => /\ \E t \in TestIds : handleStartNewTest(t)
        /\ currentTestId' \in TestIds /\ currentTestId' # currentTestId
        /\ geoLocation' = Undefined
        /\ metadata' = Undefined
        /\ videoFiles' = << >>
        /\ isEditingExisting' = FALSE]_vars

\* C18 witness: the last store call is the edit of t1, whose testId, geo and
\* metadata stayed held on the way back to the dashboard; t2 has been
\* started from there and nothing of t1 is held any more.
C18_Witness ==
  /\ currentScreen = "geo-location"
  /\ request.op = "PUT /tests/:testId" /\ request.testId = "t1"
  /\ currentTestId = "t2"
  /\ geoLocation = Undefined /\ metadata = Undefined
  /\ videoFiles = << >> /\ ~isEditingExisting

\* The update of the held test, or the create that stands in for it.
UpdateOrCreateCall ==
  /\ request'.op \in {"PUT /tests/:testId", "POST /tests"}
  /\ request'.testId = currentTestId
  /\ request'.body.metadata = Some(FormData)

\* C19: a metadata submit in edit mode never leads to video-upload or
\* review-submit; it sends the update (or the create fallback) to the store,
\* leads to upload-history exactly when that call succeeded, and otherwise
\* stays on metadata-form in edit mode. A metadata submit outside edit mode
\* leads to video-upload and calls the store not at all.
C19_EditModeRouting ==
  [][\A netOk \in BOOLEAN :
       (MetadataFormShown /\ handleMetadataSubmit(netOk))
       => IF isEditingExisting
          THEN LET succeeded == netOk /\ response'.status = 200
               IN /\ currentScreen' \notin {"video-upload", "review-submit"}
                  /\ netOk => UpdateOrCreateCall
                  /\ succeeded <=> currentScreen' = "upload-history"
                  /\ ~succeeded => (currentScreen' = "metadata-form" /\ isEditingExisting')
          ELSE /\ currentScreen' = "video-upload"
               /\ UNCHANGED storeVars]_vars

\* C19 witness: an edit of t1 has been submitted and accepted; the history
\* is shown, the edit flag is cleared and the record carries the form's data.
C19_Witness ==
  /\ currentScreen = "upload-history" /\ ~isEditingExisting
  /\ currentTestId = "t1" /\ metadata = Some(MetaD2)
  /\ request.op = "PUT /tests/:testId" /\ response.status = 200
  /\ kv["t1"] # Undefined /\ Val(kv["t1"]).metadata = Some(MetaD2)

\* C20 (as claimed): whenever the dashboard is shown the controller holds no
\* draft: no geo, no metadata, no file selection, no testId, and the edit
\* flag is cleared.
C20_NoDraftAtDashboard ==
  currentScreen = "dashboard"
  => /\ geoLocation = Undefined
     /\ metadata = Undefined
     /\ videoFiles = << >>
     /\ currentTestId = ""
     /\ ~isEditingExisting

\* The submission has been aborted: the review screen is still shown with
\* the test as it was, nothing is in progress and Submit is enabled again.
Aborted ==
  /\ currentScreen' = "review-submit"
  /\ UNCHANGED <<geoLocation, metadata, videoFiles, currentTestId>>
  /\ ~isSubmitting' /\ currentStep' = ""
  /\ SubmitEnabled'
\* The response just received is an accepted call of op for the held test.
Accepted(op) ==
  /\ request'.op = op /\ request'.testId = currentTestId
  /\ response'.status = 200

\* C21: a submission creates the record first and starts the upload only
\* once the create was accepted; it completes only after its last call was
\* accepted; when the create or the upload fails nothing further is sent,
\* the review screen stays with geo, metadata, files and testId unchanged
\* and Submit is enabled again.
C21_ReviewSubmitAbort ==
  [][(currentScreen = "review-submit" /\ isSubmitting)
     => /\ (currentStep' = StepUploading /\ currentStep # StepUploading)
           => (currentStep = StepSaving /\ Accepted("POST /tests"))
        /\ (currentStep' = StepFinalizing /\ currentStep # StepFinalizing)
           => \/ currentStep = StepUploading /\ Accepted("POST /upload-video")
              \/ currentStep = StepSaving /\ videoFiles = << >> /\ Accepted("POST /tests")
        /\ currentScreen' # "review-submit"
           => (currentStep = StepFinalizing /\ currentScreen' = "dashboard")
        /\ \A netOk \in BOOLEAN :
             (MetadataResponded(netOk) /\ ~(netOk /\ response'.status = 200))
             => (Aborted /\ (netOk \/ UNCHANGED storeVars))
        /\ \A netOk \in BOOLEAN : \A storageOk \in BOOLEAN :
             (UploadResponded(netOk, storageOk) /\ ~(netOk /\ response'.status = 200))
             => (Aborted /\ (netOk \/ UNCHANGED storeVars))]_vars

\* C21 witness: the create was accepted, the upload failed in storage, and
\* the review screen is back with the file still selected and Submit enabled.
C21_Witness ==
  /\ currentScreen = "review-submit" /\ ~isSubmitting /\ currentStep = ""
  /\ request.op = "POST /upload-video" /\ response.status # 200
  /\ kv["t1"] # Undefined /\ Len(videoFiles) = 1
  /\ toasts = << [level |-> "error", message |-> "Submission failed"] >>

\* C22: the controller goes from video-upload to review-submit only by
\* Continue with a non-empty selection, taking exactly the selected files
\* along, or by Upload Later, taking no file along whatever is selected;
\* Continue with an empty selection stays on video-upload.
C22_VideoToReview ==
  [][/\ (currentScreen = "video-upload" /\ currentScreen' = "review-submit")
        => \/ handleContinue /\ Len(selectedFiles) > 0 /\ videoFiles' = selectedFiles
           \/ handleSkip /\ videoFiles' = << >>
     /\ (handleContinue /\ selectedFiles = << >>) => currentScreen' = "video-upload"
     /\ handleSkip => (currentScreen' = "review-submit" /\ videoFiles' = << >>)]_vars

\* C22 witness: Continue has carried a selection of two files to the review.
C22_Witness ==
  /\ currentScreen = "review-submit"
  /\ Len(videoFiles) = 2 /\ \A i \in 1..2 : IsVideo(videoFiles[i])

\* The screens of one test between which the tester moves back and forth.
TestScreens == {"geo-location", "metadata-form", "video-upload", "review-submit"}

\* C23: a step between two screens of the test in progress leaves the
\* metadata draft the controller holds as the last edit made it, every edit
\* of the form becomes the held draft at once, and the form shows the held
\* draft whenever one is held (never the empty defaults).
C23_DraftPropagation ==
  [][/\ (currentScreen \in TestScreens /\ currentScreen' \in TestScreens
         /\ currentScreen' # currentScreen)
        => /\ metadata' = metadata
           /\ currentTestId' = currentTestId
     /\ \A draft \in Drafts : onDraftChange(draft) => metadata' = Some(draft)
     /\ (metadata' # Undefined) => FormData' = Val(metadata')]_vars

\* C23 witness: the tester has gone back from the metadata form to
\* geo-location with a half-filled form, and the controller still holds it.
C23_Witness ==
  /\ currentScreen = "geo-location"
  /\ ~isEditingExisting /\ currentTestId = "t1"
  /\ geoLocation # Undefined
  /\ metadata = Some(MetaIncomplete)

\* The tester the stored session names.
SessionUser(sid) ==
  [userName |-> Val(sessions[sid]).userName, email |-> Val(sessions[sid]).email]

\* C24: the controller starts on user-info; it leaves user-info only for the
\* dashboard and only with a tester resolved, either by the lookup of the
\* stored session having succeeded or by a tester of the allow-list whose
\* session POST was accepted; a failed lookup or POST leaves it on
\* user-info; on every other screen a tester is held.
C24_IdentityGate ==
  [][/\ (currentScreen = "user-info" /\ currentScreen' # "user-info")
        => /\ currentScreen' = "dashboard"
           /\ \/ /\ sessionLookup = "pending" /\ sessionLookup' = "none"
                 /\ sessions[sessionId] # Undefined
                 /\ userInfo' = Some(SessionUser(sessionId))
              \/ \E user \in USERS :
                   /\ UserInfoSubmit(user, TRUE)
                   /\ userInfo' = Some(user)
                   /\ sessions'[sessionId] =
                        Some([userName |-> user.userName, email |-> user.email,
                              createdAt |-> now])
     /\ (currentScreen = "user-info" /\ FetchSessionReturned(FALSE))
        => currentScreen' = "user-info"
     /\ \A user \in USERS : UserInfoSubmit(user, FALSE) => currentScreen' = "user-info"
     /\ (sessionLookup' = "mount") => (currentScreen' = "user-info" /\ userInfo' = Undefined)
     /\ (currentScreen' # "user-info") => userInfo' # Undefined]_vars

\* C24 witness: the page was reloaded and the lookup of the stored session
\* has brought the tester straight to the dashboard.
C24_Witness ==
  /\ currentScreen = "dashboard" /\ sessionLookup = "none"
  /\ toasts = << >>
  /\ sessions["s1"] # Undefined /\ userInfo = Some(SessionUser("s1"))
  /\ currentTestId = ""

\* C25 (as claimed): a session entry that exists is never written again:
\* its tester and its createdAt stay what they were.
C25_SessionImmutable ==
  [][\A sid \in SessionIds : sessions[sid] # Undefined => sessions'[sid] = sessions[sid]]_vars

\* C29 (as claimed): the lookup of the stored session, when it completes,
\* changes the screen and the held tester only while user-info is shown.
C29_NoStaleResult ==
  [][(\E netOk \in BOOLEAN : FetchSessionReturned(netOk)) /\ currentScreen # "user-info"
     => /\ currentScreen' = currentScreen
        /\ userInfo' = userInfo]_vars

\* C27 (as claimed): an upload answered 404 because its testId has no record
\* has written no blob: the bucket is as it was.
C27_RejectedUploadNoBlob ==
  [][(UploadStep /\ response'.status = 404) => bucket' = bucket]_vars

\* A request of the kinds that carry no status: a POST without a status
\* field, a PUT with nothing but metadata, an upload.
StatusFreeStep ==
  \/ PostStep /\ request'.body.status = Null
  \/ PutStep /\ request'.body = [EmptyUpdates EXCEPT !.metadata = request'.body.metadata]
              /\ request'.body.metadata # Undefined
  \/ UploadStep
CompletedIn(f, t) == f[t] # Undefined /\ Val(f[t]).status = "completed"

\* C28 (as claimed): a status of completed, in the key-value record or in
\* the relational row, is still completed after any POST without a status
\* field, any PUT with nothing but metadata and any upload.
C28_StatusMonotone ==
  [][LET t == request'.testId
     IN (StatusFreeStep /\ t # Null)
        => /\ CompletedIn(kv, t) => CompletedIn(kv', t)
           /\ CompletedIn(tests, t) => CompletedIn(tests', t)]_vars

\* The blob keys of the uploads that were answered with success.
Uploaded == { Val(inflight[i].fileName) : i \in { j \in Requests : inflight[j].status = 200 } }

\* C26 (as claimed): once two uploads for the same test have both been
\* answered with success, however their steps interleaved, the record's
\* video list and the test_videos rows hold both references, and a later
\* delete of the test leaves neither blob in the bucket.
C26_NoLostReference ==
  (AllAnswered /\ \A i \in Requests : inflight[i].status = 200)
  => IF kv[RaceTest] # Undefined
     THEN /\ Uploaded \subseteq { v.fileName : v \in Range(VideosOf(Val(kv[RaceTest]))) }
          /\ Uploaded \subseteq { r.file_name : r \in Range(RowsOf(RaceTest)) }
     ELSE Uploaded \cap bucket = {}

\* C30 (as claimed): manual entry is always a way forward. Whenever the
\* geo-location screen shows manual-entry mode and no capture is in flight,
\* a location is held, so that the manual handlers (which change only a
\* held location) take the edits and Continue is enabled; manual-entry
\* mode is never shown over a null location.
C30_ManualWayForward ==
  (ManualShown /\ capture.pc = "idle" /\ ~isLoading) => location # Undefined

====
